---- MODULE Spec2Model ----
(***************************************************************************)
(* A model of the aithor-be backend: the request handlers of               *)
(* routes/apiKeys.js, routes/admin.js, routes/chat.js, routes/auth.js and  *)
(* routes/payment.js and the helpers of utils/quotaUtils.js and            *)
(* utils/otp.js, running against the MongoDB collections APIKey,           *)
(* UserQuota, AppKey and User.                                             *)
(*                                                                         *)
(* Every handler is an async function: between two awaited store calls     *)
(* other requests may run.  A request is therefore a process that walks    *)
(* through its handler one awaited store call at a time (pc), carrying     *)
(* the handler's local variables (loc), and ends with a response (resp).   *)
(* Timestamps (lastUsed, createdAt, updatedAt) are not modelled.           *)
(***************************************************************************)
EXTENDS Integers, Sequences, FiniteSets, TLC

VARIABLES
    apiKeys,   \* the APIKey collection: a sequence of documents, _id = index
    quotas,    \* the UserQuota collection: a sequence of documents
    appKeys,   \* the AppKey collection: a sequence of documents
    users,     \* the User collection: a sequence of documents
    otpStore,  \* the OTP service's in-memory map: a set of entries, one per email key
    now,       \* Date.now(), in minutes since the server started
    issued,    \* history: the instants of the latest OTPs issued for WatchedEmail
    tokens,    \* the payloads of the JWTs signed so far (none expires within a run)
    resets,    \* history: resets[k] counts the successful resets with the k-th reset token
    pc,        \* per request slot: where its handler stands
    rq,        \* per request slot: the request being handled
    loc,       \* per request slot: the handler's local variables
    resp,      \* per request slot: the response sent
    slots,     \* the workload: the request slots in use (one: requests run one at a time)
    budget,    \* the workload: requests still to be accepted (-1: no limit)
    clients,   \* the workload: the users who send requests
    models     \* the workload: the modelIds that chat requests name

work == <<slots, budget, clients, models>>

local == <<otpStore, now, issued, tokens, resets>>

vars ==
    <<apiKeys, quotas, appKeys, users, otpStore, now, issued, tokens, resets, pc, rq, loc,
      resp, slots,
      budget, clients, models>>

----------------------------------------------------------------------------
(* Bounds of the model *)

MaxKeys == 2        \* APIKey documents ever inserted
MaxReqs == 2        \* requests per behaviour of the budgeted specifications
NumProcs == 2       \* request slots that may run concurrently

(* Program constants *)

DefaultMaxFreeCalls == 10   \* userQuotaSchema.maxFreeCalls default

Users == {"u1", "u2"}
Providers == {"openai", "gemini", "claude"}
FreeProviders == {"openai", "gemini"}
RawKeys == {"ka", "kb"}
Names == {"n1"}
Absent == "absent"          \* a body field that the request does not carry

Procs == 1..NumProcs
KeyIds == 1..MaxKeys

----------------------------------------------------------------------------
(* Documents *)

\* A slot of the collection whose document was deleted (ids are never reused).
Tomb == [live |-> FALSE, userId |-> "-", provider |-> "-", key |-> "-",
         name |-> "-", isDefault |-> FALSE, isActive |-> FALSE, usageCount |-> 0]

\* new APIKey({userId, provider, key, name, isDefault}) with the schema defaults.
NewAPIKey(u, p, k, n, d) ==
    [live |-> TRUE, userId |-> u, provider |-> p, key |-> k, name |-> n,
     isDefault |-> d, isActive |-> TRUE, usageCount |-> 0]

\* new UserQuota({userId, provider}) with the schema defaults.
NewUserQuota(u, p) ==
    [userId |-> u, provider |-> p, usedCalls |-> 0, maxFreeCalls |-> DefaultMaxFreeCalls]

\* new AppKey({provider, key, isActive: true}) with the schema defaults.
NewAppKey(p, k) ==
    [provider |-> p, key |-> k, isActive |-> TRUE, usageCount |-> 0]

Live(keys) == {i \in 1..Len(keys) : keys[i].live}

Min(S) == CHOOSE x \in S : \A y \in S : x <= y

\* Model.findOne: the first matching document in natural order, 0 when none.
First(S) == IF S = {} THEN 0 ELSE Min(S)

----------------------------------------------------------------------------
(* Store operations on the APIKey collection *)

\* APIKey.findOne({userId, provider, key})
FindTriple(keys, u, p, k) ==
    First({i \in Live(keys) : keys[i].userId = u /\ keys[i].provider = p /\ keys[i].key = k})

\* APIKey.findOne({userId, key, _id: {$ne: keyId}})
FindOtherWithKey(keys, u, k, id) ==
    First({i \in Live(keys) : keys[i].userId = u /\ keys[i].key = k /\ i # id})

\* The lookup by _id alone, whoever owns the document.
FindOwned_AnyOwner(keys, id, u) == IF id \in Live(keys) THEN id ELSE 0

\* APIKey.findOne({_id: keyId, userId})
FindOwned(keys, id, u) ==
    IF id \in Live(keys) /\ keys[id].userId = u THEN id ELSE 0

\* APIKey.findById(keyId)
FindById(keys, id) == IF id \in Live(keys) THEN id ELSE 0

\* The update without the userId in its filter.
ClearDefaults_AnyUser(keys, u, p) ==
    [i \in 1..Len(keys) |->
        IF keys[i].live /\ keys[i].provider = p /\ keys[i].isDefault
        THEN [keys[i] EXCEPT !.isDefault = FALSE] ELSE keys[i]]

\* APIKey.updateMany({userId, provider, isDefault: true}, {isDefault: false})
ClearDefaults(keys, u, p) ==
    [i \in 1..Len(keys) |->
        IF keys[i].live /\ keys[i].userId = u /\ keys[i].provider = p /\ keys[i].isDefault
        THEN [keys[i] EXCEPT !.isDefault = FALSE] ELSE keys[i]]

\* The unique index {userId, provider, key}: would document d, stored under
\* _id id, collide with another document of the collection?
UniqueViolation(keys, id, d) ==
    \E j \in Live(keys) : j # id /\ keys[j].userId = d.userId
                          /\ keys[j].provider = d.provider /\ keys[j].key = d.key

----------------------------------------------------------------------------
(* Requests, locals, responses *)

NoReq == [op |-> "none", caller |-> "-", isAdmin |-> FALSE, userId |-> "-",
          keyId |-> 0, provider |-> Absent, key |-> Absent, name |-> Absent,
          isDefault |-> Absent, modelId |-> Absent, email |-> Absent,
          password |-> Absent, signature |-> Absent, event |-> Absent,
          code |-> Absent, token |-> Absent]

Loc0 == [id |-> 0, doc |-> Tomb, user |-> Tomb, usingAppKey |-> FALSE, usage |-> -1,
         remaining |-> << >>]

\* A response: the request's operation, the HTTP status (0: the return of a
\* helper called directly), the error or result of the body, the _id of the
\* APIKey document of the body (0: none), the usedCalls of the usage info of
\* the body (-1: none), the remainingCalls of the quotas of the body, one per
\* free-tier provider (empty: none), and the error that was thrown and
\* logged, if any.
NoResp == [op |-> "none", status |-> 0, error |-> "", id |-> 0, usage |-> -1,
           remaining |-> << >>, thrown |-> ""]

Out(s, e) ==
    [status |-> s, error |-> e, id |-> 0, usage |-> -1, remaining |-> << >>,
     thrown |-> ""]

\* const { ..., isDefault = false } = req.body
Truthy(v) == v = "true"

Quiet(p) == pc[p] \in {"idle", "done"}

\* A request arrives and takes the lowest free slot: its handler starts at
\* label l.
Begin(p, r, l) ==
    /\ p \in slots
    /\ Quiet(p)
    /\ \A q \in slots : Quiet(q) => p <= q
    /\ budget # 0
    /\ budget' = IF budget > 0 THEN budget - 1 ELSE budget
    /\ r.caller \in clients
    /\ r.op = "chat" => r.modelId \in models
    /\ UNCHANGED <<slots, clients, models>>
    /\ rq' = [rq EXCEPT ![p] = r]
    /\ loc' = [loc EXCEPT ![p] = Loc0]
    /\ resp' = [resp EXCEPT ![p] = NoResp]
    /\ pc' = [pc EXCEPT ![p] = l]
    /\ UNCHANGED <<apiKeys, quotas, appKeys, users, local>>

\* The handler answers with v and ends; its request and locals go.
End(p, v) ==
    /\ resp' = [resp EXCEPT ![p] = [op |-> rq[p].op, status |-> v.status,
                                    error |-> v.error, id |-> v.id,
                                    usage |-> v.usage, remaining |-> v.remaining,
                                    thrown |-> v.thrown]]
    /\ pc' = [pc EXCEPT ![p] = "done"]
    /\ rq' = [rq EXCEPT ![p] = NoReq]
    /\ loc' = [loc EXCEPT ![p] = Loc0]

\* res.status(s).json({error: e}), or res.json(...) with s = 200.
Finish(p, s, e) == End(p, Out(s, e))

\* res.json(document i)
FinishDoc(p, i) == End(p, [Out(200, "") EXCEPT !.id = i])

\* A store call threw t; the handler's catch block answers with a = <<status, error>>.
Caught(p, t, a) == End(p, [Out(a[1], a[2]) EXCEPT !.thrown = t])

\* The handler goes on to label l with its locals as they are.
Goto(p, l) ==
    /\ pc' = [pc EXCEPT ![p] = l]
    /\ UNCHANGED <<resp, rq, loc>>

\* The handler goes on to label l with locals v.
GotoWith(p, l, v) ==
    /\ pc' = [pc EXCEPT ![p] = l]
    /\ loc' = [loc EXCEPT ![p] = v]
    /\ UNCHANGED <<resp, rq>>

\* Body fields a handler reads; a missing one is Absent.
Missing(v) == v = Absent

KeyProviders == {"openai", "gemini"}    \* providers used for stored user keys

\* Creates that are running: each will insert at most one document.
PendingInserts ==
    Cardinality({q \in Procs : ~Quiet(q) /\ rq[q].op \in {"create", "adminCreate"}})

Room == Len(apiKeys) + PendingInserts < MaxKeys

----------------------------------------------------------------------------
(* POST /api/api-keys : save a new API key *)

PostKeyRequests ==
    [op : {"create"}, caller : Users, isAdmin : {FALSE}, userId : {"-"}, keyId : {0},
     provider : KeyProviders, key : RawKeys, name : Names,
     isDefault : {Absent, "true", "false"}, modelId : {Absent},
     email : {Absent}, password : {Absent},
     signature : {Absent}, event : {Absent}, code : {Absent}, token : {Absent}]
    \cup
    [op : {"create"}, caller : Users, isAdmin : {FALSE}, userId : {"-"}, keyId : {0},
     provider : {Absent}, key : {"ka"}, name : {"n1"}, isDefault : {Absent}, modelId : {Absent},
     email : {Absent}, password : {Absent},
     signature : {Absent}, event : {Absent}, code : {Absent}, token : {Absent}]

PostKeyStart(p) ==
    /\ Room
    /\ \E r \in PostKeyRequests : Begin(p, r, "post_check")

\* The handler without its duplicate pre-check, leaving duplicates to the index.
PostKeyExisting_Skipped(keys, r) == 0

\* lines 213-217: the duplicate pre-check, the _id of a document to refuse for.
PostKeyExisting(keys, r) == FindTriple(keys, r.caller, r.provider, r.key)

\* lines 206-229: validation, the duplicate pre-check, the decision to clear.
PostKeyCheck(p) ==
    /\ pc[p] = "post_check"
    /\ LET r == rq[p] IN
       IF Missing(r.provider) \/ Missing(r.key) \/ Missing(r.name)
       THEN Finish(p, 400, "required")
       ELSE IF PostKeyExisting(apiKeys, r) # 0
       THEN Finish(p, 400, "exists")
       ELSE Goto(p, IF Truthy(r.isDefault) THEN "post_clear" ELSE "post_save")
    /\ UNCHANGED <<apiKeys, quotas, appKeys, users, local, work>>

\* lines 224-229: unset the other defaults of this provider.
PostKeyClear(p) ==
    /\ pc[p] = "post_clear"
    /\ apiKeys' = ClearDefaults(apiKeys, rq[p].caller, rq[p].provider)
    /\ Goto(p, "post_save")
    /\ UNCHANGED <<quotas, appKeys, users, local, work>>

\* lines 242-249: what the catch block answers to a thrown error.
PostKeyCatch(t) ==
    IF t = "E11000" THEN <<400, "duplicate">> ELSE <<500, "server">>

\* lines 232-249: insert the document; the unique index may refuse it.
PostKeySave(p) ==
    /\ pc[p] = "post_save"
    /\ LET r == rq[p]
           d == NewAPIKey(r.caller, r.provider, r.key, r.name, Truthy(r.isDefault))
       IN IF UniqueViolation(apiKeys, 0, d)
          THEN /\ Caught(p, "E11000", PostKeyCatch("E11000"))
               /\ UNCHANGED apiKeys
          ELSE /\ apiKeys' = Append(apiKeys, d)
               /\ FinishDoc(p, Len(apiKeys) + 1)
    /\ UNCHANGED <<quotas, appKeys, users, local, work>>

----------------------------------------------------------------------------
(* PUT /api/api-keys/:keyId : update an existing API key (the first of the   *)
(* two handlers registered for this route; it always answers, so the       *)
(* second one, at lines 327-363, never runs)                               *)

PutKeyRequests ==
    [op : {"update"}, caller : Users, isAdmin : {FALSE}, userId : {"-"}, keyId : KeyIds,
     provider : KeyProviders \cup {Absent}, key : RawKeys, name : Names,
     isDefault : {Absent, "true", "false"}, modelId : {Absent},
     email : {Absent}, password : {Absent},
     signature : {Absent}, event : {Absent}, code : {Absent}, token : {Absent}]
    \cup
    [op : {"update"}, caller : Users, isAdmin : {FALSE}, userId : {"-"}, keyId : KeyIds,
     provider : {Absent}, key : {"ka"}, name : {Absent}, isDefault : {Absent}, modelId : {Absent},
     email : {Absent}, password : {Absent},
     signature : {Absent}, event : {Absent}, code : {Absent}, token : {Absent}]

PutKeyStart(p) ==
    /\ Quiet(p)
    /\ \E r \in PutKeyRequests : Begin(p, r, "put_find")

\* After the duplicate check: clear the siblings' defaults first, or save.
PutKeyAfterDup(r, doc) ==
    IF Truthy(r.isDefault) /\ ~doc.isDefault THEN "put_clear" ELSE "put_save"

\* lines 255-269: validation and the lookup of the caller's own document.
PutKeyFind(p) ==
    /\ pc[p] = "put_find"
    /\ LET r == rq[p]
           id == FindOwned(apiKeys, r.keyId, r.caller)
       IN IF Missing(r.key) \/ Missing(r.name)
          THEN Finish(p, 400, "required")
          ELSE IF id = 0
          THEN Finish(p, 404, "notfound")
          ELSE GotoWith(p, IF r.key # apiKeys[id].key THEN "put_dup"
                           ELSE PutKeyAfterDup(r, apiKeys[id]),
                        [loc[p] EXCEPT !.id = id, !.doc = apiKeys[id]])
    /\ UNCHANGED <<apiKeys, quotas, appKeys, users, local, work>>

\* lines 272-282: the duplicate check of a changed key value.
PutKeyDup(p) ==
    /\ pc[p] = "put_dup"
    /\ LET r == rq[p] IN
       IF FindOtherWithKey(apiKeys, r.caller, r.key, r.keyId) # 0
       THEN Finish(p, 400, "exists")
       ELSE Goto(p, PutKeyAfterDup(r, loc[p].doc))
    /\ UNCHANGED <<apiKeys, quotas, appKeys, users, local, work>>

\* lines 285-290: unset the other defaults of the document's provider.
PutKeyClearProvider(r, doc) == doc.provider

PutKeyClear(p) ==
    /\ pc[p] = "put_clear"
    /\ apiKeys' = ClearDefaults(apiKeys, rq[p].caller, PutKeyClearProvider(rq[p], loc[p].doc))
    /\ Goto(p, "put_save")
    /\ UNCHANGED <<quotas, appKeys, users, local, work>>

\* lines 293-296: the document as the handler has assigned it.
PutKeyAssigned(r, doc) ==
    [doc EXCEPT !.key = r.key, !.name = r.name, !.isDefault = Truthy(r.isDefault),
                !.provider = IF Missing(r.provider) THEN doc.provider ELSE r.provider]

\* document.save() of a loaded document writes the modified paths only:
\* the stored document cur with the paths in which new differs from old.
SaveModified(cur, old, new) ==
    [cur EXCEPT !.key = IF new.key # old.key THEN new.key ELSE cur.key,
                !.name = IF new.name # old.name THEN new.name ELSE cur.name,
                !.isDefault = IF new.isDefault # old.isDefault THEN new.isDefault
                              ELSE cur.isDefault,
                !.provider = IF new.provider # old.provider THEN new.provider
                             ELSE cur.provider]

\* lines 300-303: what the catch block answers to a thrown error.
PutKeyCatch(t) == <<500, "server">>

\* lines 293-303: assign and save; the document may be gone (save() looks
\* it up also when no path was modified), the unique index may refuse the
\* write.
PutKeySave(p) ==
    /\ pc[p] = "put_save"
    /\ LET r == rq[p]
           id == loc[p].id
           new == PutKeyAssigned(r, loc[p].doc)
       IN IF id \notin Live(apiKeys)
          THEN /\ Caught(p, "DocumentNotFound", PutKeyCatch("DocumentNotFound"))
               /\ UNCHANGED apiKeys
          ELSE IF new = loc[p].doc
          THEN FinishDoc(p, id) /\ UNCHANGED apiKeys
          ELSE LET d == SaveModified(apiKeys[id], loc[p].doc, new) IN
               IF UniqueViolation(apiKeys, id, d)
               THEN /\ Caught(p, "E11000", PutKeyCatch("E11000"))
                    /\ UNCHANGED apiKeys
               ELSE /\ apiKeys' = [apiKeys EXCEPT ![id] = d]
                    /\ FinishDoc(p, id)
    /\ UNCHANGED <<quotas, appKeys, users, local, work>>

----------------------------------------------------------------------------
(* DELETE /api/api-keys/:keyId *)

DeleteKeyRequests ==
    [op : {"delete"}, caller : Users, isAdmin : {FALSE}, userId : {"-"}, keyId : KeyIds,
     provider : {Absent}, key : {Absent}, name : {Absent}, isDefault : {Absent}, modelId : {Absent},
     email : {Absent}, password : {Absent},
     signature : {Absent}, event : {Absent}, code : {Absent}, token : {Absent}]

DeleteKeyStart(p) ==
    /\ Quiet(p)
    /\ \E r \in DeleteKeyRequests : Begin(p, r, "del")

\* lines 309-313: deletedKey = findOneAndDelete({_id, userId}), the removed
\* document or null.
DeleteKey(p) ==
    /\ pc[p] = "del"
    /\ LET id == FindOwned(apiKeys, rq[p].keyId, rq[p].caller) IN
       IF id = 0
       THEN GotoWith(p, "del_reply", Loc0) /\ UNCHANGED apiKeys
       ELSE /\ apiKeys' = [apiKeys EXCEPT ![id] = Tomb]
            /\ GotoWith(p, "del_reply", [loc[p] EXCEPT !.id = id, !.doc = apiKeys[id]])
    /\ UNCHANGED <<quotas, appKeys, users, local, work>>

\* lines 315-319: the answer: 404 when nothing was deleted.
DeleteReply(p) ==
    /\ pc[p] = "del_reply"
    /\ IF loc[p].id = 0 THEN Finish(p, 404, "notfound") ELSE Finish(p, 200, "")
    /\ UNCHANGED <<apiKeys, quotas, appKeys, users, local, work>>

----------------------------------------------------------------------------
(* PATCH /api/api-keys/:keyId/active : set the default key of a provider *)

SetActiveRequests ==
    [op : {"setDefault"}, caller : Users, isAdmin : {FALSE}, userId : {"-"}, keyId : KeyIds,
     provider : {Absent}, key : {Absent}, name : {Absent}, isDefault : {Absent}, modelId : {Absent},
     email : {Absent}, password : {Absent},
     signature : {Absent}, event : {Absent}, code : {Absent}, token : {Absent}]

SetActiveStart(p) ==
    /\ Quiet(p)
    /\ \E r \in SetActiveRequests : Begin(p, r, "act_find")

\* APIKey.updateMany({userId, provider}, {isDefault: false})
UnsetAll(keys, u, prov) ==
    [i \in 1..Len(keys) |->
        IF keys[i].live /\ keys[i].userId = u /\ keys[i].provider = prov
        THEN [keys[i] EXCEPT !.isDefault = FALSE] ELSE keys[i]]

\* APIKey.findByIdAndUpdate(keyId, {isDefault: true})
SetDefaultById(keys, id) ==
    IF id \in Live(keys) THEN [keys EXCEPT ![id].isDefault = TRUE] ELSE keys

\* lines 368-374: find the key, refuse another user's.
SetActiveFind(p) ==
    /\ pc[p] = "act_find"
    /\ LET id == FindById(apiKeys, rq[p].keyId) IN
       IF id = 0 \/ apiKeys[id].userId # rq[p].caller
       THEN Finish(p, 404, "notfound")
       ELSE GotoWith(p, "act_clear", [loc[p] EXCEPT !.id = id, !.doc = apiKeys[id]])
    /\ UNCHANGED <<apiKeys, quotas, appKeys, users, local, work>>

\* lines 377-380: unset all defaults of the provider.
SetActiveClear(p) ==
    /\ pc[p] = "act_clear"
    /\ apiKeys' = UnsetAll(apiKeys, rq[p].caller, loc[p].doc.provider)
    /\ Goto(p, "act_set")
    /\ UNCHANGED <<quotas, appKeys, users, local, work>>

\* lines 383-389: set this key as default.
SetActiveSet(p) ==
    /\ pc[p] = "act_set"
    /\ apiKeys' = SetDefaultById(apiKeys, rq[p].keyId)
    /\ FinishDoc(p, FindById(apiKeys, rq[p].keyId))
    /\ UNCHANGED <<quotas, appKeys, users, local, work>>

----------------------------------------------------------------------------
(* utils/quotaUtils.js: the quota ledger and the app key pool *)

\* UserQuota.findOne({userId, provider})
FindQuota(qs, u, prov) ==
    First({i \in 1..Len(qs) : qs[i].userId = u /\ qs[i].provider = prov})

\* The unique index {userId, provider} of the UserQuota collection.
QuotaIndexViolation(qs, u, prov) == FindQuota(qs, u, prov) # 0

\* AppKey.findOne({provider})
FindAppKey(aks, prov) == First({i \in 1..Len(aks) : aks[i].provider = prov})

\* getAppKey finding no key whatever the pool holds.
GetAppKey_NoneFound(aks, prov) == 0

\* getAppKey: AppKey.findOne({provider, isActive: true})
GetAppKey(aks, prov) ==
    First({i \in 1..Len(aks) : aks[i].provider = prov /\ aks[i].isActive})

\* checkQuota's answer with the comparison allowing one call more.
HasQuota_OffByOne(q) == q.usedCalls <= q.maxFreeCalls

\* checkQuota's answer for a ledger record.
HasQuota(q) == q.usedCalls < q.maxFreeCalls

\* The upsert applied as a plain write that forgets the stored count.
IncUsedCalls_Overwrite(qs, u, prov) ==
    IF FindQuota(qs, u, prov) = 0
    THEN Append(qs, [NewUserQuota(u, prov) EXCEPT !.usedCalls = 1])
    ELSE [qs EXCEPT ![FindQuota(qs, u, prov)].usedCalls = 1]

\* The upsert with a filter on the provider alone: it increments the first
\* record of the provider, whoever its user is.
IncUsedCalls_AnyUser(qs, u, prov) ==
    IF {i \in 1..Len(qs) : qs[i].provider = prov} = {}
    THEN Append(qs, [NewUserQuota(u, prov) EXCEPT !.usedCalls = 1])
    ELSE [qs EXCEPT ![First({i \in 1..Len(qs) : qs[i].provider = prov})].usedCalls
                        = @ + 1]

\* UserQuota.findOneAndUpdate({userId, provider}, {$inc: {usedCalls: 1}},
\* {upsert: true}): one atomic store operation; an insert applies the
\* increment to the new document and sets the other schema defaults.
IncUsedCalls(qs, u, prov) ==
    IF FindQuota(qs, u, prov) = 0
    THEN Append(qs, [NewUserQuota(u, prov) EXCEPT !.usedCalls = 1])
    ELSE [qs EXCEPT ![FindQuota(qs, u, prov)].usedCalls = @ + 1]

\* The usage of the app key going unrecorded.
IncAppUsage_Lost(aks, prov) == aks

\* AppKey.findOneAndUpdate({provider}, {$inc: {usageCount: 1}, $set: {lastUsed}})
IncAppUsage(aks, prov) ==
    IF FindAppKey(aks, prov) = 0 THEN aks
    ELSE [aks EXCEPT ![FindAppKey(aks, prov)].usageCount = @ + 1]

\* The modelId of a chat request decides the provider.
ModelIds == {"gpt-4o-mini", "gemini-pro", "claude-3", "llama"}

ProviderOfModel(m) ==
    CASE m = "gpt-4o-mini" -> "openai"
      [] m = "gemini-pro" -> "gemini"
      [] m = "claude-3" -> "claude"
      [] OTHER -> "unknown"

\* The (userId, provider) a quota helper runs for: the arguments of a direct
\* call, or those that chat/send passes.
QUser(r) == IF r.op = "chat" THEN r.caller ELSE r.userId
QProv(r) == IF r.op = "chat" THEN ProviderOfModel(r.modelId) ELSE r.provider

\* Direct calls of the exported helpers.
QuotaCallRequests ==
    [op : {"checkQuota", "incrementQuota"}, caller : {"u1"}, isAdmin : {FALSE},
     userId : Users, keyId : {0}, provider : Providers, key : {Absent},
     name : {Absent}, isDefault : {Absent}, modelId : {Absent},
     email : {Absent}, password : {Absent},
     signature : {Absent}, event : {Absent}, code : {Absent}, token : {Absent}]

CheckQuotaStart(p) ==
    /\ Quiet(p)
    /\ \E r \in QuotaCallRequests : r.op = "checkQuota" /\ Begin(p, r, "cq_find")

IncrementQuotaStart(p) ==
    /\ Quiet(p)
    /\ \E r \in QuotaCallRequests : r.op = "incrementQuota" /\ Begin(p, r, "inc_quota")

\* checkQuota returns b: chat/send goes on (lines 96-105), a direct call ends.
CheckQuotaReturn(p, b) ==
    IF rq[p].op = "chat"
    THEN IF b THEN Goto(p, "chat_appkey") ELSE Finish(p, 429, "quotaExceeded")
    ELSE Finish(p, 0, IF b THEN "true" ELSE "false")

\* chat/send lines 160-163: what the catch block answers.
ChatCatch(t) == <<500, "server">>

\* A helper throws t: chat/send catches it, a direct call passes it on.
QuotaThrow(p, t) ==
    IF rq[p].op = "chat" THEN Caught(p, t, ChatCatch(t))
    ELSE End(p, [Out(0, "") EXCEPT !.thrown = t])

\* checkQuota lines 13-18, 22: the provider test and the lookup.
CheckQuotaFind(p) ==
    /\ pc[p] = "cq_find"
    /\ LET u == QUser(rq[p])
           prov == QProv(rq[p])
           i == FindQuota(quotas, u, prov)
       IN IF prov \notin FreeProviders THEN CheckQuotaReturn(p, FALSE)
          ELSE IF i # 0 THEN CheckQuotaReturn(p, HasQuota(quotas[i]))
          ELSE Goto(p, "cq_save")
    /\ UNCHANGED <<apiKeys, quotas, appKeys, users, local, work>>

\* checkQuota lines 19-22: the lazy creation of the ledger record.
CheckQuotaSave(p) ==
    /\ pc[p] = "cq_save"
    /\ LET u == QUser(rq[p])
           prov == QProv(rq[p])
       IN IF QuotaIndexViolation(quotas, u, prov)
          THEN QuotaThrow(p, "E11000") /\ UNCHANGED quotas
          ELSE /\ quotas' = Append(quotas, NewUserQuota(u, prov))
               /\ CheckQuotaReturn(p, HasQuota(NewUserQuota(u, prov)))
    /\ UNCHANGED <<apiKeys, appKeys, users, local, work>>

\* incrementQuota lines 28-33: the provider test and the ledger upsert.
IncQuota(p) ==
    /\ pc[p] = "inc_quota"
    /\ IF QProv(rq[p]) \in FreeProviders
       THEN /\ quotas' = IncUsedCalls(quotas, QUser(rq[p]), QProv(rq[p]))
            /\ Goto(p, "inc_app")
       ELSE /\ Finish(p, 0, "")
            /\ UNCHANGED quotas
    /\ UNCHANGED <<apiKeys, appKeys, users, local, work>>

\* incrementQuota lines 35-38: the app key's usage counter; then chat/send
\* lines 141-159 add one to the usage info and answer.
IncApp(p) ==
    /\ pc[p] = "inc_app"
    /\ appKeys' = IncAppUsage(appKeys, QProv(rq[p]))
    /\ IF rq[p].op = "chat"
       THEN End(p, [Out(200, "") EXCEPT
                      !.usage = IF loc[p].usage >= 0 THEN loc[p].usage + 1 ELSE -1])
       ELSE Finish(p, 0, "")
    /\ UNCHANGED <<apiKeys, quotas, users, local, work>>

----------------------------------------------------------------------------
(* POST /api/chat/send *)

ChatRequests ==
    [op : {"chat"}, caller : Users, isAdmin : {FALSE}, userId : {"-"}, keyId : {0},
     provider : {Absent}, key : {Absent}, name : {Absent}, isDefault : {Absent},
     modelId : ModelIds \cup {Absent},
     email : {Absent}, password : {Absent},
     signature : {Absent}, event : {Absent}, code : {Absent}, token : {Absent}]

ChatStart(p) ==
    /\ Quiet(p)
    /\ \E r \in ChatRequests : Begin(p, r, "chat_key")

\* APIKey.findOne({userId, provider, isDefault: true, isActive: true})
FindDefaultActive(keys, u, prov) ==
    First({i \in Live(keys) : /\ keys[i].userId = u /\ keys[i].provider = prov
                              /\ keys[i].isDefault /\ keys[i].isActive})

\* The free tier taken whether or not the user has a key.
ChatUsesFreeTier_IgnoresKey(hasKey, prov) == prov \in FreeProviders

\* line 93: no key of the user's own, and a provider with a free quota.
ChatUsesFreeTier(hasKey, prov) == ~hasKey /\ prov \in FreeProviders

\* lines 66-93, 110-117: validation, the user's own key, the choice of branch.
ChatKey(p) ==
    /\ pc[p] = "chat_key"
    /\ LET r == rq[p]
           prov == ProviderOfModel(r.modelId)
           id == FindDefaultActive(apiKeys, r.caller, prov)
       IN IF Missing(r.modelId) THEN Finish(p, 400, "required")
          ELSE IF ChatUsesFreeTier(id # 0, prov) THEN Goto(p, "cq_find")
          ELSE IF id = 0 THEN Finish(p, 400, "requiresUserKey")
          ELSE GotoWith(p, IF prov \in FreeProviders THEN "chat_usage" ELSE "chat_userkey",
                        [loc[p] EXCEPT !.id = id, !.doc = apiKeys[id]])
    /\ UNCHANGED <<apiKeys, quotas, appKeys, users, local, work>>

\* lines 105-109: the app key of the provider.
ChatAppKey(p) ==
    /\ pc[p] = "chat_appkey"
    /\ IF GetAppKey(appKeys, QProv(rq[p])) = 0
       THEN Finish(p, 500, "notConfigured")
       ELSE GotoWith(p, "chat_usage", [loc[p] EXCEPT !.usingAppKey = TRUE])
    /\ UNCHANGED <<apiKeys, quotas, appKeys, users, local, work>>

\* lines 120-135: the AI service is called (it never throws and touches no
\* collection), then the ledger is read for the usage info.
ChatUsage(p) ==
    /\ pc[p] = "chat_usage"
    /\ LET i == FindQuota(quotas, rq[p].caller, QProv(rq[p])) IN
       GotoWith(p, IF loc[p].usingAppKey THEN "inc_quota" ELSE "chat_userkey",
                [loc[p] EXCEPT !.usage = IF i = 0 THEN -1 ELSE quotas[i].usedCalls])
    /\ UNCHANGED <<apiKeys, quotas, appKeys, users, local, work>>

\* APIKey.findByIdAndUpdate(id, {$inc: {usageCount: 1}, lastUsed})
IncKeyUsage(keys, id) ==
    IF id \in Live(keys) THEN [keys EXCEPT ![id].usageCount = @ + 1] ELSE keys

\* lines 147-159: the usage counter of the user's key, and the answer.
ChatUserKey(p) ==
    /\ pc[p] = "chat_userkey"
    /\ apiKeys' = IncKeyUsage(apiKeys, loc[p].id)
    /\ End(p, [Out(200, "") EXCEPT !.usage = loc[p].usage])
    /\ UNCHANGED <<quotas, appKeys, users, local, work>>

----------------------------------------------------------------------------
(* The admin routes: /api/admin/... (routes/admin.js) and
   /api/api-keys/admin/... (routes/apiKeys.js) *)

\* The operations the interface designates admin-only that are modelled here.
AdminOps ==
    {"adminAppKey", "keysAppKey", "adminAppKeys", "keysAppKeys",
     "adminUserQuotas", "keysUserQuotas", "adminResetQuota", "keysResetQuota",
     "adminCreate", "adminUpdate", "adminDelete", "adminSetDefault",
     "grantAdmin", "revokeAdmin", "deleteUser"}

\* The routes declared with the requireAdmin middleware. A POST to
\* /api/api-keys/admin/app-key is taken by the route POST /admin/:userId
\* declared before it (line 579), which has the middleware; in routes/admin.js
\* and on the listing routes of routes/apiKeys.js it is commented out.
RoutesWithRequireAdmin ==
    {"keysAppKey", "keysResetQuota",
     "adminCreate", "adminUpdate", "adminDelete", "adminSetDefault",
     "grantAdmin", "revokeAdmin", "deleteUser"}

\* requireAdmin: the test of the token's admin flag.
RequireAdmin(r) == r.isAdmin

AppKeyRequests ==
    [op : {"adminAppKey", "keysAppKey"}, caller : Users, isAdmin : BOOLEAN,
     userId : {"-"}, keyId : {0}, provider : Providers \cup {Absent},
     key : {"kb", Absent}, name : Names \cup {Absent},
     isDefault : {Absent}, modelId : {Absent},
     email : {Absent}, password : {Absent},
     signature : {Absent}, event : {Absent}, code : {Absent}, token : {Absent}]

ListRequests ==
    [op : {"adminAppKeys", "keysAppKeys", "adminUserQuotas", "keysUserQuotas"},
     caller : Users, isAdmin : BOOLEAN, userId : {"u1", Absent}, keyId : {0},
     provider : {Absent}, key : {Absent}, name : {Absent}, isDefault : {Absent},
     modelId : {Absent},
     email : {Absent}, password : {Absent},
     signature : {Absent}, event : {Absent}, code : {Absent}, token : {Absent}]

ResetQuotaRequests ==
    [op : {"adminResetQuota", "keysResetQuota"}, caller : Users, isAdmin : BOOLEAN,
     userId : Users, keyId : {0}, provider : Providers, key : {Absent},
     name : {Absent}, isDefault : {Absent}, modelId : {Absent},
     email : {Absent}, password : {Absent},
     signature : {Absent}, event : {Absent}, code : {Absent}, token : {Absent}]

AppKeyStart(p) ==
    /\ Quiet(p)
    /\ \E r \in AppKeyRequests :
          /\ r.op = "adminAppKey" => r.name = Absent
          /\ r.op = "keysAppKey" => r.provider = "openai" /\ r.key = "kb"
          /\ Begin(p, r, "gate")

ListStart(p) ==
    /\ Quiet(p)
    /\ \E r \in ListRequests :
          /\ r.op \in {"adminAppKeys", "keysAppKeys"} => r.userId = Absent
          /\ Begin(p, r, "gate")

ResetQuotaStart(p) ==
    /\ Quiet(p)
    /\ \E r \in ResetQuotaRequests : Begin(p, r, "gate")

\* Where the handler of a route starts.
Handler(op) ==
    CASE op = "adminAppKey" -> "ak_find"
      [] op = "keysAppKey" -> "ak_shadow"
      [] op \in {"adminAppKeys", "keysAppKeys", "adminUserQuotas",
                 "keysUserQuotas"} -> "list"
      [] op = "adminResetQuota" -> "rq_admin"
      [] op = "keysResetQuota" -> "rq_keys"
      [] op = "adminCreate" -> "ac_user"
      [] op = "adminUpdate" -> "au_find"
      [] op = "adminDelete" -> "ad_del"
      [] op = "adminSetDefault" -> "as_find"
      [] op = "grantAdmin" -> "ga"
      [] op = "revokeAdmin" -> "ra"
      [] op = "deleteUser" -> "du"

\* The middleware chain after authenticateToken.
Gate(p) ==
    /\ pc[p] = "gate"
    /\ IF rq[p].op \in RoutesWithRequireAdmin /\ ~RequireAdmin(rq[p])
       THEN Finish(p, 403, "adminRequired")
       ELSE Goto(p, Handler(rq[p].op))
    /\ UNCHANGED <<apiKeys, quotas, appKeys, users, local, work>>

\* admin.js POST /app-key lines 73-88: validation and the lookup.
AppKeyFind(p) ==
    /\ pc[p] = "ak_find"
    /\ LET r == rq[p]
           i == FindAppKey(appKeys, r.provider)
       IN IF Missing(r.provider) \/ Missing(r.key) THEN Finish(p, 400, "required")
          ELSE IF r.provider \notin FreeProviders THEN Finish(p, 400, "invalidProvider")
          ELSE GotoWith(p, IF i # 0 THEN "ak_update" ELSE "ak_insert",
                        [loc[p] EXCEPT !.id = i])
    /\ UNCHANGED <<apiKeys, quotas, appKeys, users, local, work>>

\* admin.js lines 90-100, 117: existingKey.key = key; existingKey.save()
AppKeyUpdate(p) ==
    /\ pc[p] = "ak_update"
    /\ appKeys' = [appKeys EXCEPT ![loc[p].id].key = rq[p].key]
    /\ Finish(p, 200, "")
    /\ UNCHANGED <<apiKeys, quotas, users, local, work>>

\* The AppKey collection without its unique index.
AppKeyIndexViolation_NoIndex(aks, prov) == FALSE

\* The unique index on provider of the AppKey collection: would a new
\* document for prov collide?
AppKeyIndexViolation(aks, prov) == FindAppKey(aks, prov) # 0

\* admin.js lines 101-117: new AppKey({provider, key, isActive: true}).save()
\* under the unique index on provider.
AppKeyInsert(p) ==
    /\ pc[p] = "ak_insert"
    /\ IF AppKeyIndexViolation(appKeys, rq[p].provider)
       THEN /\ Caught(p, "E11000", <<500, "createFailed">>)
            /\ UNCHANGED appKeys
       ELSE /\ appKeys' = Append(appKeys, NewAppKey(rq[p].provider, rq[p].key))
            /\ Finish(p, 200, "")
    /\ UNCHANGED <<apiKeys, quotas, users, local, work>>

\* apiKeys.js lines 581-593, 624-630 run for POST /admin/app-key: the path
\* parameter userId is "app-key", which User.findById cannot cast.
AppKeyShadowed(p) ==
    /\ pc[p] = "ak_shadow"
    /\ IF Missing(rq[p].provider) \/ Missing(rq[p].key) \/ Missing(rq[p].name)
       THEN Finish(p, 400, "required")
       ELSE Caught(p, "CastError", <<500, "server">>)
    /\ UNCHANGED <<apiKeys, quotas, appKeys, users, local, work>>

\* The documents a listing returns.
Listed(r) ==
    IF r.op \in {"adminAppKeys", "keysAppKeys"} THEN Len(appKeys)
    ELSE Cardinality({i \in 1..Len(quotas) :
                         r.userId # Absent => quotas[i].userId = r.userId})

\* GET /app-keys, GET /user-quotas of both routers: read and answer.
List(p) ==
    /\ pc[p] = "list"
    /\ End(p, [Out(200, "") EXCEPT !.id = Listed(rq[p])])
    /\ UNCHANGED <<apiKeys, quotas, appKeys, users, local, work>>

\* UserQuota.findOneAndUpdate({userId, provider}, {usedCalls: 0}, {new: true})
ResetUsed(qs, u, prov) ==
    IF FindQuota(qs, u, prov) = 0 THEN qs
    ELSE [qs EXCEPT ![FindQuota(qs, u, prov)].usedCalls = 0]

\* UserQuota.findOneAndUpdate({userId, provider}, {usedCalls: 0}, {upsert: true})
ResetUsedUpsert(qs, u, prov) ==
    IF FindQuota(qs, u, prov) = 0 THEN Append(qs, NewUserQuota(u, prov))
    ELSE ResetUsed(qs, u, prov)

\* admin.js POST /reset-quota/:userId/:provider lines 196-212.
ResetQuotaAdmin(p) ==
    /\ pc[p] = "rq_admin"
    /\ LET r == rq[p] IN
       IF r.provider \notin FreeProviders
       THEN Finish(p, 400, "invalidProvider") /\ UNCHANGED quotas
       ELSE IF FindQuota(quotas, r.userId, r.provider) = 0
       THEN Finish(p, 404, "quotaNotFound") /\ UNCHANGED quotas
       ELSE /\ quotas' = ResetUsed(quotas, r.userId, r.provider)
            /\ Finish(p, 200, "")
    /\ UNCHANGED <<apiKeys, appKeys, users, local, work>>

\* apiKeys.js POST /admin/reset-quota/:userId/:provider lines 903-915.
ResetQuotaKeys(p) ==
    /\ pc[p] = "rq_keys"
    /\ LET r == rq[p] IN
       IF r.provider \notin FreeProviders
       THEN Finish(p, 400, "invalidProvider") /\ UNCHANGED quotas
       ELSE /\ quotas' = ResetUsedUpsert(quotas, r.userId, r.provider)
            /\ Finish(p, 200, "")
    /\ UNCHANGED <<apiKeys, appKeys, users, local, work>>

----------------------------------------------------------------------------
(* The admin key routes /api/api-keys/admin/:userId... (routes/apiKeys.js) *)

\* A well-formed user id that no User document has.
NoUser == "u0"

\* User.findById(id)
FindUserById(us, id) == First({i \in 1..Len(us) : us[i].live /\ us[i].id = id})

\* const user = await User.findById(userId); if (!user) ...
UserExists(u) == FindUserById(users, u) # 0

\* Requests of an admin; of a caller who is not one, a single request per
\* route, since requireAdmin answers before anything of it is read.
AdminKeyRequests(o, us, ids, provs, ks, ns, ds) ==
    [op : {o}, caller : Users, isAdmin : {TRUE}, userId : us, keyId : ids,
     provider : provs, key : ks, name : ns, isDefault : ds, modelId : {Absent},
     email : {Absent}, password : {Absent},
     signature : {Absent}, event : {Absent}, code : {Absent}, token : {Absent}]
    \cup
    [op : {o}, caller : Users, isAdmin : {FALSE}, userId : {"u1"}, keyId : {1},
     provider : {"openai"}, key : {"ka"}, name : {"n1"}, isDefault : {"true"},
     modelId : {Absent},
     email : {Absent}, password : {Absent},
     signature : {Absent}, event : {Absent}, code : {Absent}, token : {Absent}]

AdminPostRequests ==
    AdminKeyRequests("adminCreate", Users \cup {NoUser}, {0}, KeyProviders, RawKeys,
                     Names \cup {Absent}, {"true", "false"})

AdminPutRequests ==
    AdminKeyRequests("adminUpdate", Users, KeyIds, {Absent}, RawKeys \cup {Absent},
                     Names, {Absent, "true", "false"})

AdminDeleteRequests ==
    AdminKeyRequests("adminDelete", Users, KeyIds, {Absent}, {Absent}, {Absent}, {Absent})

AdminSetActiveRequests ==
    AdminKeyRequests("adminSetDefault", Users, KeyIds, {Absent}, {Absent}, {Absent},
                     {Absent})

AdminPostStart(p) ==
    /\ Room
    /\ \E r \in AdminPostRequests : Begin(p, r, "gate")

AdminPutStart(p) ==
    /\ Quiet(p)
    /\ \E r \in AdminPutRequests : Begin(p, r, "gate")

AdminDeleteStart(p) ==
    /\ Quiet(p)
    /\ \E r \in AdminDeleteRequests : Begin(p, r, "gate")

AdminSetActiveStart(p) ==
    /\ Quiet(p)
    /\ \E r \in AdminSetActiveRequests : Begin(p, r, "gate")

\* APIKey.findOne({userId, key})
FindUserKey(keys, u, k) ==
    First({i \in Live(keys) : keys[i].userId = u /\ keys[i].key = k})

\* POST /admin/:userId lines 581-593: validation and the user lookup.
AdminPostUser(p) ==
    /\ pc[p] = "ac_user"
    /\ LET r == rq[p] IN
       IF Missing(r.provider) \/ Missing(r.key) \/ Missing(r.name)
       THEN Finish(p, 400, "required")
       ELSE IF ~UserExists(r.userId) THEN Finish(p, 404, "usernotfound")
       ELSE Goto(p, "ac_check")
    /\ UNCHANGED <<apiKeys, quotas, appKeys, users, local, work>>

\* lines 596-611: the duplicate pre-check, the decision to clear.
AdminPostCheck(p) ==
    /\ pc[p] = "ac_check"
    /\ IF FindUserKey(apiKeys, rq[p].userId, rq[p].key) # 0
       THEN Finish(p, 400, "exists")
       ELSE Goto(p, IF Truthy(rq[p].isDefault) THEN "ac_clear" ELSE "ac_save")
    /\ UNCHANGED <<apiKeys, quotas, appKeys, users, local, work>>

\* lines 606-611: unset the other defaults of this provider.
AdminPostClear(p) ==
    /\ pc[p] = "ac_clear"
    /\ apiKeys' = ClearDefaults(apiKeys, rq[p].userId, rq[p].provider)
    /\ Goto(p, "ac_save")
    /\ UNCHANGED <<quotas, appKeys, users, local, work>>

\* lines 614-631: insert the document; the unique index may refuse it.
AdminPostSave(p) ==
    /\ pc[p] = "ac_save"
    /\ LET r == rq[p]
           d == NewAPIKey(r.userId, r.provider, r.key, r.name, Truthy(r.isDefault))
       IN IF UniqueViolation(apiKeys, 0, d)
          THEN /\ Caught(p, "E11000", PostKeyCatch("E11000"))
               /\ UNCHANGED apiKeys
          ELSE /\ apiKeys' = Append(apiKeys, d)
               /\ FinishDoc(p, Len(apiKeys) + 1)
    /\ UNCHANGED <<quotas, appKeys, users, local, work>>

\* PUT /admin/:userId/:keyId lines 637-649: when the body asks for the
\* default, the key is looked up by its _id alone.
AdminPutFind(p) ==
    /\ pc[p] = "au_find"
    /\ LET id == FindById(apiKeys, rq[p].keyId) IN
       IF Truthy(rq[p].isDefault) /\ id # 0
       THEN GotoWith(p, "au_clear", [loc[p] EXCEPT !.id = id, !.doc = apiKeys[id]])
       ELSE Goto(p, "au_update")
    /\ UNCHANGED <<apiKeys, quotas, appKeys, users, local, work>>

\* lines 644-647: unset all defaults of the path's user for that provider.
AdminPutClear(p) ==
    /\ pc[p] = "au_clear"
    /\ apiKeys' = UnsetAll(apiKeys, rq[p].userId, loc[p].doc.provider)
    /\ Goto(p, "au_update")
    /\ UNCHANGED <<quotas, appKeys, users, local, work>>

\* lines 651-654: updateData applied to a document.
AdminPutData(r, doc) ==
    [doc EXCEPT !.name = IF Missing(r.name) THEN doc.name ELSE r.name,
                !.isDefault = IF Missing(r.isDefault) THEN doc.isDefault
                              ELSE Truthy(r.isDefault),
                !.key = IF Missing(r.key) THEN doc.key ELSE r.key]

\* lines 656-670: findOneAndUpdate({_id, userId}, updateData).
AdminPutUpdate(p) ==
    /\ pc[p] = "au_update"
    /\ LET id == FindOwned(apiKeys, rq[p].keyId, rq[p].userId) IN
       IF id = 0
       THEN Finish(p, 404, "notfound") /\ UNCHANGED apiKeys
       ELSE IF UniqueViolation(apiKeys, id, AdminPutData(rq[p], apiKeys[id]))
       THEN Caught(p, "E11000", PutKeyCatch("E11000")) /\ UNCHANGED apiKeys
       ELSE /\ apiKeys' = [apiKeys EXCEPT ![id] = AdminPutData(rq[p], apiKeys[id])]
            /\ FinishDoc(p, id)
    /\ UNCHANGED <<quotas, appKeys, users, local, work>>

\* DELETE /admin/:userId/:keyId lines 676-681: findOneAndDelete({_id, userId}).
AdminDeleteKey(p) ==
    /\ pc[p] = "ad_del"
    /\ LET id == FindOwned(apiKeys, rq[p].keyId, rq[p].userId) IN
       IF id = 0
       THEN GotoWith(p, "ad_reply", Loc0) /\ UNCHANGED apiKeys
       ELSE /\ apiKeys' = [apiKeys EXCEPT ![id] = Tomb]
            /\ GotoWith(p, "ad_reply", [loc[p] EXCEPT !.id = id, !.doc = apiKeys[id]])
    /\ UNCHANGED <<quotas, appKeys, users, local, work>>

\* lines 683-687: the answer: 404 when nothing was deleted.
AdminDeleteReply(p) ==
    /\ pc[p] = "ad_reply"
    /\ IF loc[p].id = 0 THEN Finish(p, 404, "notfound") ELSE Finish(p, 200, "")
    /\ UNCHANGED <<apiKeys, quotas, appKeys, users, local, work>>

\* The lookup without the comparison of the document's user with the path's.
AdminSetActiveFind_NoOwnerCheck(p) ==
    /\ pc[p] = "as_find"
    /\ LET id == FindById(apiKeys, rq[p].keyId) IN
       IF id = 0
       THEN Finish(p, 404, "notfound")
       ELSE GotoWith(p, "as_clear", [loc[p] EXCEPT !.id = id, !.doc = apiKeys[id]])
    /\ UNCHANGED <<apiKeys, quotas, appKeys, users, local, work>>

\* PATCH /admin/:userId/:keyId/active lines 697-703.
AdminSetActiveFind(p) ==
    /\ pc[p] = "as_find"
    /\ LET id == FindById(apiKeys, rq[p].keyId) IN
       IF id = 0 \/ apiKeys[id].userId # rq[p].userId
       THEN Finish(p, 404, "notfound")
       ELSE GotoWith(p, "as_clear", [loc[p] EXCEPT !.id = id, !.doc = apiKeys[id]])
    /\ UNCHANGED <<apiKeys, quotas, appKeys, users, local, work>>

\* lines 706-709.
AdminSetActiveClear(p) ==
    /\ pc[p] = "as_clear"
    /\ apiKeys' = UnsetAll(apiKeys, rq[p].userId, loc[p].doc.provider)
    /\ Goto(p, "as_set")
    /\ UNCHANGED <<quotas, appKeys, users, local, work>>

\* lines 712-718.
AdminSetActiveSet(p) ==
    /\ pc[p] = "as_set"
    /\ apiKeys' = SetDefaultById(apiKeys, rq[p].keyId)
    /\ FinishDoc(p, FindById(apiKeys, rq[p].keyId))
    /\ UNCHANGED <<quotas, appKeys, users, local, work>>

----------------------------------------------------------------------------
(* GET /api/auth/verify : the quotas reported to a user (routes/auth.js) *)

VerifyDefaultRemaining == 10

Max(a, b) == IF a >= b THEN a ELSE b

\* The remaining calls without the clamp at zero.
RemainingCalls_Unclamped(q) == q.maxFreeCalls - q.usedCalls

\* lines 531, 540: Math.max(0, quota.maxFreeCalls - quota.usedCalls)
RemainingCalls(q) == Max(0, q.maxFreeCalls - q.usedCalls)

\* lines 528-545: the remainingCalls reported for (u, prov).
ReportedRemaining(qs, u, prov) ==
    IF FindQuota(qs, u, prov) = 0 THEN VerifyDefaultRemaining
    ELSE RemainingCalls(qs[FindQuota(qs, u, prov)])

VerifyRequests ==
    [op : {"verify"}, caller : Users, isAdmin : {FALSE}, userId : {"-"}, keyId : {0},
     provider : {Absent}, key : {Absent}, name : {Absent}, isDefault : {Absent},
     modelId : {Absent},
     email : {Absent}, password : {Absent},
     signature : {Absent}, event : {Absent}, code : {Absent}, token : {Absent}]

VerifyStart(p) ==
    /\ Quiet(p)
    /\ \E r \in VerifyRequests : Begin(p, r, "verify_user")

\* lines 519-524: User.findById(decoded.userId); user._id of a user that is
\* not there throws, and the catch block answers 401.
VerifyUser(p) ==
    /\ pc[p] = "verify_user"
    /\ IF ~UserExists(rq[p].caller)
       THEN Caught(p, "TypeError", <<401, "invalidToken">>)
       ELSE Goto(p, "verify_openai")
    /\ UNCHANGED <<apiKeys, quotas, appKeys, users, local, work>>

\* lines 524, 528-536: the openai record is read.
VerifyOpenai(p) ==
    /\ pc[p] = "verify_openai"
    /\ GotoWith(p, "verify_gemini",
                [loc[p] EXCEPT !.remaining =
                    <<ReportedRemaining(quotas, rq[p].caller, "openai")>>])
    /\ UNCHANGED <<apiKeys, quotas, appKeys, users, local, work>>

\* lines 525, 537-558: the gemini record is read and the answer sent.
VerifyGemini(p) ==
    /\ pc[p] = "verify_gemini"
    /\ End(p, [Out(200, "") EXCEPT !.remaining =
                  Append(loc[p].remaining,
                         ReportedRemaining(quotas, rq[p].caller, "gemini"))])
    /\ UNCHANGED <<apiKeys, quotas, appKeys, users, local, work>>

----------------------------------------------------------------------------
(* POST /api/auth/signup (routes/auth.js, models/User.js) *)

Anonymous == "anon"

\* The _id given to the n-th document of the User collection.
UserIds == <<"u1", "u2", "u3", "u4", "u5", "u6">>

RawEmails == {"u1@x.io", "n1@x.io", "N1@x.io", "n2@x.io"}

\* userSchema.email lowercase: true (the addresses carry no outer blanks).
Lower(e) == IF e = "N1@x.io" THEN "n1@x.io" ELSE e

\* User.findOne({email}): the filter is cast by the schema, setters included.
FindUserByEmail(us, e) ==
    First({i \in 1..Len(us) : us[i].live /\ us[i].email = Lower(e)})

\* The unique index on email: would a document with email e collide?
EmailIndexViolation(us, e) == \E i \in 1..Len(us) : us[i].live /\ us[i].email = e

\* bcrypt.hash(password, salt) and bcrypt.compare(password, hash): the hash
\* stands for the password it was made of.
Hash(pw) == <<"bcrypt", pw>>
Compare(pw, h) == h = Hash(pw)

\* The password of an account that has none (a Google account).
NoPassword == <<"none", Absent>>

\* The fields of a User document that the routes and the make-admin
\* script read and write without a declaration of them in the schema at
\* hand (admin flag, premium flag and its expiry, password-reset token and
\* its expiry), with the values of a new document.
UserFlags ==
    [isAdmin |-> FALSE, isPremium |-> FALSE, premiumExpiresAt |-> 0,
     resetPasswordToken |-> Absent, resetPasswordExpires |-> 0]

\* new User({email, password: hashedPassword, isVerified: true}) saved after
\* the documents us, with the schema defaults.
NewUser(us, e, pw) ==
    [live |-> TRUE, id |-> UserIds[Len(us) + 1], email |-> Lower(e),
     password |-> Hash(pw), googleId |-> Absent] @@ UserFlags

SignupRequests ==
    [op : {"signup"}, caller : {Anonymous}, isAdmin : {FALSE}, userId : {"-"},
     keyId : {0}, provider : {Absent}, key : {Absent}, name : {Absent},
     isDefault : {Absent}, modelId : {Absent}, email : RawEmails, password : {"pw"},
     signature : {Absent}, event : {Absent}, code : {Absent}, token : {Absent}]

SignupStart(p) ==
    /\ Quiet(p)
    /\ \E r \in SignupRequests : Begin(p, r, "su_find")

\* jwt.sign({userId: user._id, email: user.email, isAdmin: user.isAdmin || false}):
\* the claims of the token that the handlers read.
Payload(u) == [userId |-> u.id, isAdmin |-> u.isAdmin]

\* lines 391-397: the lookup of the email.
SignupFind(p) ==
    /\ pc[p] = "su_find"
    /\ IF FindUserByEmail(users, rq[p].email) # 0
       THEN Finish(p, 400, "exists")
       ELSE Goto(p, "su_save")
    /\ UNCHANGED <<apiKeys, quotas, appKeys, users, local, work>>

\* lines 425-428: what the catch block answers to a thrown error.
SignupCatch(t) == <<500, "server">>

\* lines 399-424: hash, newUser.save(), token and answer; the unique index
\* may refuse the insert.
SignupSave(p) ==
    /\ pc[p] = "su_save"
    /\ IF EmailIndexViolation(users, NewUser(users, rq[p].email, rq[p].password).email)
       THEN Caught(p, "E11000", SignupCatch("E11000")) /\ UNCHANGED <<users, tokens>>
       ELSE /\ users' = Append(users, NewUser(users, rq[p].email, rq[p].password))
            /\ tokens' = tokens \cup {Payload(NewUser(users, rq[p].email, rq[p].password))}
            /\ FinishDoc(p, Len(users) + 1)
    /\ UNCHANGED <<apiKeys, quotas, appKeys, otpStore, now, issued, resets, work>>

----------------------------------------------------------------------------
(* POST /api/payment/webhook (routes/payment.js) *)

\* process.env.RAZORPAY_WEBHOOK_SECRET, and a secret that is not it.
WebhookSecret == "whsec"
OtherSecret == "guess"

Events == {"payment.captured", "qr_code.activated"}
Customers == Users \cup {NoUser, "guest", Absent}

\* JSON.stringify(req.body): the event and the customer of the payment.
Body(r) == <<r.event, r.userId>>

\* createHmac('sha256', secret).update(body).digest('hex'): the digest
\* stands for the secret and the body it was made of, and for nothing else.
Hmac(secret, body) == <<secret, body>>

\* A request without the x-razorpay-signature header: no digest equals it.
NoSignature == <<Absent, <<Absent, Absent>>>>

\* The x-razorpay-signature headers a sender may attach: the gateway's, one
\* made with another secret, the gateway's for another body, none.
Signatures ==
    {Hmac(sec, <<e, c>>) : sec \in {WebhookSecret, OtherSecret}, e \in Events,
                           c \in {"u1", "u2"}}
    \cup {NoSignature}

\* The comparison that lets every request through.
SignatureMatches_Always(r) == TRUE

\* lines 235-240: signature === expectedSignature
SignatureMatches(r) == r.signature = Hmac(WebhookSecret, Body(r))

WebhookRequests ==
    [op : {"webhook"}, caller : {Anonymous}, isAdmin : {FALSE}, userId : Customers,
     keyId : {0}, provider : {Absent}, key : {Absent}, name : {Absent},
     isDefault : {Absent}, modelId : {Absent}, email : {Absent}, password : {Absent},
     signature : Signatures, event : Events, code : {Absent}, token : {Absent}]

WebhookStart(p) ==
    /\ Quiet(p)
    /\ \E r \in WebhookRequests : Begin(p, r, "wh_verify")

\* lines 231-255, 272-276: the signature check and the dispatch on the event.
WebhookVerify(p) ==
    /\ pc[p] = "wh_verify"
    /\ LET r == rq[p] IN
       IF ~SignatureMatches(r) THEN Finish(p, 400, "invalidSignature")
       ELSE IF r.event = "payment.captured" /\ ~Missing(r.userId) /\ r.userId # "guest"
       THEN Goto(p, "wh_find")
       ELSE Finish(p, 200, "")
    /\ UNCHANGED <<apiKeys, quotas, appKeys, users, local, work>>

\* lines 256-257: User.findById(customerId).
WebhookFind(p) ==
    /\ pc[p] = "wh_find"
    /\ LET i == FindUserById(users, rq[p].userId) IN
       IF i = 0 THEN Finish(p, 200, "")
       ELSE GotoWith(p, "wh_save", [loc[p] EXCEPT !.id = i])
    /\ UNCHANGED <<apiKeys, quotas, appKeys, users, local, work>>

\* 30 * 24 * 60 minutes.
PremiumMinutes == 43200

\* lines 258-276: user.isPremium = true, premiumExpiresAt in 30 days,
\* user.save(); the save of a document that was deleted meanwhile throws,
\* which the inner catch block logs; the answer is the same.
WebhookSave(p) ==
    /\ pc[p] = "wh_save"
    /\ IF ~users[loc[p].id].live
       THEN Caught(p, "DocumentNotFound", <<200, "">>) /\ UNCHANGED users
       ELSE /\ users' = [users EXCEPT ![loc[p].id].isPremium = TRUE,
                                      ![loc[p].id].premiumExpiresAt = now + PremiumMinutes]
            /\ Finish(p, 200, "")
    /\ UNCHANGED <<apiKeys, quotas, appKeys, local, work>>

----------------------------------------------------------------------------
(* The OTP service (utils/otp.js, lines 55-301) *)
(* Time is counted in minutes; the code counts milliseconds.               *)

OtpExpiryMinutes == 10      \* storeOTP expiryMinutes
MaxOtpAttempts == 3         \* verifyOTP: attempts >= 3
MaxOtpRequests == 3         \* sendVerificationOTP: requestCount >= 3
DayMinutes == 1440          \* twentyFourHours
CleanupMinutes == 5         \* setInterval(cleanupExpiredOTPs, ...)

\* The instants at which a call, a timer callback or a mail answer happens.
Instants == {0, 5, 10, 15, 1440, 1450, 1455}

OtpEmails == {"n1@x.io", "N1@x.io"}

\* generateOTP(): the codes it may draw.
Codes == {"111111", "222222"}

\* otpStore.has(k), otpStore.get(k), otpStore.delete(k), otpStore.set(k, d)
HasOtp(store, k) == \E d \in store : d.email = k
OtpOf(store, k) == CHOOSE d \in store : d.email = k
OtpDelete(store, k) == {d \in store : d.email # k}
OtpSet(store, d) == OtpDelete(store, d.email) \cup {d}

\* storeOTP(email, otp) at time t.
StoreOTP(store, e, otp, t) ==
    LET k == Lower(e)
        count == IF HasOtp(store, k) THEN OtpOf(store, k).requestCount ELSE 0
    IN OtpSet(store, [email |-> k, otp |-> otp, expiryTime |-> t + OtpExpiryMinutes,
                      attempts |-> 0, requestCount |-> count + 1,
                      lastRequestTime |-> t])

\* verifyOTP that forgets the limit on failed attempts.
VerifyOTP_NoAttemptLimit(store, e, code, t) ==
    LET k == Lower(e) IN
    IF ~HasOtp(store, k) THEN <<"notFound", store>>
    ELSE LET d == OtpOf(store, k) IN
         IF t > d.expiryTime THEN <<"expired", OtpDelete(store, k)>>
         ELSE IF d.otp = code THEN <<"valid", OtpDelete(store, k)>>
         ELSE <<"invalid", OtpSet(store, [d EXCEPT !.attempts = @ + 1])>>

\* verifyOTP(email, userOTP) at time t: its message and the map it leaves.
VerifyOTP(store, e, code, t) ==
    LET k == Lower(e) IN
    IF ~HasOtp(store, k) THEN <<"notFound", store>>
    ELSE LET d == OtpOf(store, k) IN
         IF t > d.expiryTime THEN <<"expired", OtpDelete(store, k)>>
         ELSE IF d.attempts >= MaxOtpAttempts
         THEN <<"tooManyAttempts", OtpDelete(store, k)>>
         ELSE IF d.otp = code THEN <<"valid", OtpDelete(store, k)>>
         ELSE <<"invalid", OtpSet(store, [d EXCEPT !.attempts = @ + 1])>>

\* sendVerificationOTP lines 234-248: is the request refused at time t?
OtpRefused(store, e, t) ==
    /\ HasOtp(store, Lower(e))
    /\ OtpOf(store, Lower(e)).requestCount >= MaxOtpRequests
    /\ t - OtpOf(store, Lower(e)).lastRequestTime < DayMinutes

\* lines 234-248: the map after the check of a request that is not refused.
OtpAfterCheck(store, e) ==
    IF HasOtp(store, Lower(e)) /\ OtpOf(store, Lower(e)).requestCount >= MaxOtpRequests
    THEN OtpDelete(store, Lower(e)) ELSE store

\* cleanupExpiredOTPs() at time t.
CleanupExpired(store, t) == {d \in store : ~(t > d.expiryTime)}

\* The email key whose issued OTPs the history records.
WatchedEmail == "n1@x.io"

\* The history after an OTP is issued for e at time t: the latest
\* MaxOtpRequests + 1 instants.
Issue(h, e, t) ==
    IF Lower(e) # WatchedEmail THEN h
    ELSE IF Len(h) <= MaxOtpRequests THEN Append(h, t)
    ELSE Append(Tail(h), t)

OtpRequests(o, codes) ==
    [op : {o}, caller : {Anonymous}, isAdmin : {FALSE}, userId : {"-"},
     keyId : {0}, provider : {Absent}, key : {Absent}, name : {Absent},
     isDefault : {Absent}, modelId : {Absent}, email : OtpEmails, password : {Absent},
     signature : {Absent}, event : {Absent}, code : codes, token : {Absent}]

SendOtpStart(p) ==
    /\ Quiet(p)
    /\ \E r \in OtpRequests("sendOTP", {Absent}) : Begin(p, r, "so_store")

VerifyOtpStart(p) ==
    /\ Quiet(p)
    /\ \E r \in OtpRequests("verifyOTP", Codes) : Begin(p, r, "vo")

\* sendVerificationOTP lines 230-253: the request limit, then a new code is
\* drawn and stored.
SendOtpStore(p) ==
    /\ pc[p] = "so_store"
    /\ IF OtpRefused(otpStore, rq[p].email, now)
       THEN Finish(p, 0, "tooMany") /\ UNCHANGED <<otpStore, issued>>
       ELSE /\ \E otp \in Codes :
                  otpStore' = StoreOTP(OtpAfterCheck(otpStore, rq[p].email),
                                       rq[p].email, otp, now)
            /\ issued' = Issue(issued, rq[p].email, now)
            /\ Goto(p, "so_mail")
    /\ UNCHANGED <<apiKeys, quotas, appKeys, users, now, tokens, resets, work>>

\* The mail step that takes the stored OTP back when the mail fails.
SendOtpMail_DropsOnFailure(p) ==
    /\ pc[p] = "so_mail"
    /\ \E ok \in BOOLEAN :
          /\ Finish(p, 0, IF ok THEN "sent" ELSE "mailFailed")
          /\ otpStore' = IF ok THEN otpStore ELSE OtpDelete(otpStore, Lower(rq[p].email))
    /\ UNCHANGED <<apiKeys, quotas, appKeys, users, now, issued, tokens, resets, work>>

\* lines 256-268: the mail provider's answer, which sendOTPEmail reports as
\* success or failure without throwing.
SendOtpMail(p) ==
    /\ pc[p] = "so_mail"
    /\ \E ok \in BOOLEAN : Finish(p, 0, IF ok THEN "sent" ELSE "mailFailed")
    /\ UNCHANGED <<apiKeys, quotas, appKeys, users, local, work>>

\* verifyOTP: one synchronous call.
VerifyOtp(p) ==
    /\ pc[p] = "vo"
    /\ otpStore' = VerifyOTP(otpStore, rq[p].email, rq[p].code, now)[2]
    /\ Finish(p, 0, VerifyOTP(otpStore, rq[p].email, rq[p].code, now)[1])
    /\ UNCHANGED <<apiKeys, quotas, appKeys, users, now, issued, tokens, resets, work>>

\* The timer callback of line 292.
Cleanup ==
    /\ now % CleanupMinutes = 0
    /\ otpStore' = CleanupExpired(otpStore, now)
    /\ UNCHANGED <<apiKeys, quotas, appKeys, users, now, issued, tokens, resets, pc, rq, loc,
                   resp, work>>

\* Time passes to a later instant.
Tick ==
    /\ \E t \in Instants : t > now /\ now' = t
    /\ UNCHANGED <<apiKeys, quotas, appKeys, users, otpStore, issued, tokens, resets, pc, rq,
                   loc, resp, work>>

----------------------------------------------------------------------------
(* Accounts: login, password reset and the admin's user routes (routes/auth.js) *)

\* req.user = decoded: the claims of the token the request carries.
Decoded(r) == [userId |-> r.caller, isAdmin |-> r.isAdmin]

\* req.user.f: a property the payload does not carry reads as undefined.
Claim(tok, f) == IF f \in DOMAIN tok THEN tok[f] ELSE Absent

\* authenticateToken: jwt.verify accepts the tokens that were signed.
Authenticated(r) == Decoded(r) \in tokens

MinPasswordLength == 6
ResetExpiryMinutes == 60

\* crypto.randomBytes(32).toString('hex'): the k-th token generated; no two
\* are equal.
ResetTokens == <<"t1", "t2">>

Passwords == {"pw", "secret2"}

LoginRequests ==
    [op : {"login"}, caller : {Anonymous}, isAdmin : {FALSE}, userId : {"-"},
     keyId : {0}, provider : {Absent}, key : {Absent}, name : {Absent},
     isDefault : {Absent}, modelId : {Absent}, email : {"u1@x.io", "u2@x.io", "n1@x.io"},
     password : Passwords,
     signature : {Absent}, event : {Absent}, code : {Absent}, token : {Absent}]

ForgotRequests ==
    [op : {"forgotPassword"}, caller : {Anonymous}, isAdmin : {FALSE}, userId : {"-"},
     keyId : {0}, provider : {Absent}, key : {Absent}, name : {Absent},
     isDefault : {Absent}, modelId : {Absent}, email : {"u2@x.io", "n1@x.io", Absent},
     password : {Absent},
     signature : {Absent}, event : {Absent}, code : {Absent}, token : {Absent}]

ResetRequests ==
    [op : {"resetPassword"}, caller : {Anonymous}, isAdmin : {FALSE}, userId : {"-"},
     keyId : {0}, provider : {Absent}, key : {Absent}, name : {Absent},
     isDefault : {Absent}, modelId : {Absent}, email : {Absent},
     password : {"secret2", "abc", Absent},
     signature : {Absent}, event : {Absent}, code : {Absent},
     token : {ResetTokens[k] : k \in 1..Len(ResetTokens)} \cup {Absent}]

UserAdminRequests ==
    [op : {"grantAdmin", "revokeAdmin", "deleteUser"}, caller : Users,
     isAdmin : BOOLEAN, userId : Users \cup {NoUser},
     keyId : {0}, provider : {Absent}, key : {Absent}, name : {Absent},
     isDefault : {Absent}, modelId : {Absent}, email : {Absent}, password : {Absent},
     signature : {Absent}, event : {Absent}, code : {Absent}, token : {Absent}]

LoginStart(p) ==
    /\ Quiet(p)
    /\ \E r \in LoginRequests : Begin(p, r, "li")

ForgotStart(p) ==
    /\ Quiet(p)
    /\ Len(resets) < Len(ResetTokens)
    /\ \E r \in ForgotRequests : Begin(p, r, "fp_find")

ResetStart(p) ==
    /\ Quiet(p)
    /\ \E r \in ResetRequests : Begin(p, r, "rp_find")

\* A request to one of the admin's user routes, with a token that was signed.
UserAdminStart(p) ==
    /\ Quiet(p)
    /\ \E r \in UserAdminRequests : Authenticated(r) /\ Begin(p, r, "gate")

\* POST /login, lines 477-486: the lookup of the user.
LoginFind(p) ==
    /\ pc[p] = "li"
    /\ LET i == FindUserByEmail(users, rq[p].email)
       IN IF i = 0 THEN Finish(p, 401, "invalidCredentials")
          ELSE GotoWith(p, "li_sign", [loc[p] EXCEPT !.id = i, !.user = users[i]])
    /\ UNCHANGED <<apiKeys, quotas, appKeys, users, local, work>>

\* lines 488-508: bcrypt.compare with the hash of the document as loaded (it
\* throws for an account without a password), then the token is signed with
\* the admin flag of the document as loaded.
Login(p) ==
    /\ pc[p] = "li_sign"
    /\ LET u == loc[p].user
       IN IF u.password = NoPassword
          THEN Caught(p, "IllegalArguments", <<500, "server">>) /\ UNCHANGED tokens
          ELSE IF ~Compare(rq[p].password, u.password)
          THEN Finish(p, 401, "invalidCredentials") /\ UNCHANGED tokens
          ELSE /\ tokens' = tokens \cup {Payload(u)}
               /\ FinishDoc(p, loc[p].id)
    /\ UNCHANGED <<apiKeys, quotas, appKeys, users, otpStore, now, issued, resets, work>>

\* POST /grant-admin/:userId, lines 735-758:
\* User.findByIdAndUpdate(userId, {isAdmin: true}, {new: true}).
GrantAdmin(p) ==
    /\ pc[p] = "ga"
    /\ LET i == FindUserById(users, rq[p].userId)
       IN IF i = 0 THEN Finish(p, 404, "userNotFound") /\ UNCHANGED users
          ELSE /\ users' = [users EXCEPT ![i].isAdmin = TRUE]
               /\ FinishDoc(p, i)
    /\ UNCHANGED <<apiKeys, quotas, appKeys, local, work>>

\* POST /revoke-admin/:userId, lines 761-784:
\* User.findByIdAndUpdate(userId, {isAdmin: false}, {new: true}).
RevokeAdmin(p) ==
    /\ pc[p] = "ra"
    /\ LET i == FindUserById(users, rq[p].userId)
       IN IF i = 0 THEN Finish(p, 404, "userNotFound") /\ UNCHANGED users
          ELSE /\ users' = [users EXCEPT ![i].isAdmin = FALSE]
               /\ FinishDoc(p, i)
    /\ UNCHANGED <<apiKeys, quotas, appKeys, local, work>>

\* The payload of the credential of a google-auth request: its email and
\* its sub (carried in the request's token).
GoogleRequests ==
    [op : {"googleAuth"}, caller : {Anonymous}, isAdmin : {FALSE}, userId : {"-"},
     keyId : {0}, provider : {Absent}, key : {Absent}, name : {Absent},
     isDefault : {Absent}, modelId : {Absent}, email : {"u1@x.io", "n1@x.io"},
     password : {Absent},
     signature : {Absent}, event : {Absent}, code : {Absent}, token : {"g1", Absent}]

GoogleStart(p) ==
    /\ Quiet(p)
    /\ \E r \in GoogleRequests : Begin(p, r, "go_find")

\* new User({email, googleId, name, picture, isVerified: true})
NewGoogleUser(us, e, sub) ==
    [NewUser(us, e, "") EXCEPT !.password = NoPassword, !.googleId = sub]

\* POST /google-auth, lines 690-712 and 718-733: the credential is decoded
\* (a request without one throws), the user of its email looked up; a user
\* that has a googleId gets the token at once.
GoogleFind(p) ==
    /\ pc[p] = "go_find"
    /\ LET r == rq[p]
           i == FindUserByEmail(users, r.email)
       IN IF Missing(r.token)
          THEN Caught(p, "TypeError", <<500, "server">>) /\ UNCHANGED tokens
          ELSE IF i = 0 THEN Goto(p, "go_new") /\ UNCHANGED tokens
          ELSE IF users[i].googleId = Absent
          THEN /\ GotoWith(p, "go_link", [loc[p] EXCEPT !.id = i, !.user = users[i]])
               /\ UNCHANGED tokens
          ELSE /\ tokens' = tokens \cup {Payload(users[i])}
               /\ FinishDoc(p, i)
    /\ UNCHANGED <<apiKeys, quotas, appKeys, users, otpStore, now, issued, resets, work>>

\* lines 699-707 and 718-733: the new user is saved (the unique index may
\* refuse the insert) and gets the token.
GoogleNew(p) ==
    /\ pc[p] = "go_new"
    /\ LET u == NewGoogleUser(users, rq[p].email, rq[p].token)
       IN IF EmailIndexViolation(users, u.email)
          THEN Caught(p, "E11000", <<500, "server">>) /\ UNCHANGED <<users, tokens>>
          ELSE /\ users' = Append(users, u)
               /\ tokens' = tokens \cup {Payload(u)}
               /\ FinishDoc(p, Len(users) + 1)
    /\ UNCHANGED <<apiKeys, quotas, appKeys, otpStore, now, issued, resets, work>>

\* lines 708-733: the googleId is set on the document found and saved (the
\* save of a document deleted meanwhile throws); the token carries the
\* admin flag of the document as loaded.
GoogleLink(p) ==
    /\ pc[p] = "go_link"
    /\ LET i == loc[p].id
       IN IF ~users[i].live
          THEN /\ Caught(p, "DocumentNotFound", <<500, "server">>)
               /\ UNCHANGED <<users, tokens>>
          ELSE /\ users' = [users EXCEPT ![i].googleId = rq[p].token]
               /\ tokens' = tokens \cup {Payload(loc[p].user)}
               /\ FinishDoc(p, i)
    /\ UNCHANGED <<apiKeys, quotas, appKeys, otpStore, now, issued, resets, work>>

SignupOtpRequests ==
    [op : {"signupWithOtp"}, caller : {Anonymous}, isAdmin : {FALSE}, userId : {"-"},
     keyId : {0}, provider : {Absent}, key : {Absent}, name : {Absent},
     isDefault : {Absent}, modelId : {Absent}, email : OtpEmails, password : {"pw"},
     signature : {Absent}, event : {Absent}, code : Codes \cup {Absent},
     token : {Absent}]

SignupOtpStart(p) ==
    /\ Quiet(p)
    /\ \E r \in SignupOtpRequests : Begin(p, r, "sw_otp")

\* POST /signup-with-otp, lines 632-644: validation and verifyOTP (which
\* consumes the code), before the handler's first await.
SignupOtpVerify(p) ==
    /\ pc[p] = "sw_otp"
    /\ LET r == rq[p]
           v == VerifyOTP(otpStore, r.email, r.code, now)
       IN IF Missing(r.email) \/ Missing(r.password) \/ Missing(r.code)
          THEN Finish(p, 400, "required") /\ UNCHANGED otpStore
          ELSE /\ otpStore' = v[2]
               /\ IF v[1] # "valid" THEN Finish(p, 400, v[1]) ELSE Goto(p, "sw_find")
    /\ UNCHANGED <<apiKeys, quotas, appKeys, users, now, issued, tokens, resets, work>>

\* lines 646-650: User.findOne({email}), the lookup of the email.
SignupOtpFind(p) ==
    /\ pc[p] = "sw_find"
    /\ IF FindUserByEmail(users, rq[p].email) # 0
       THEN Finish(p, 400, "exists")
       ELSE Goto(p, "sw_save")
    /\ UNCHANGED <<apiKeys, quotas, appKeys, users, local, work>>

\* lines 652-687: hash, newUser.save() (the unique index may refuse the
\* insert, which the catch block answers with 500), token and answer.
SignupOtpSave(p) ==
    /\ pc[p] = "sw_save"
    /\ LET u == NewUser(users, rq[p].email, rq[p].password)
       IN IF EmailIndexViolation(users, u.email)
          THEN Caught(p, "E11000", <<500, "server">>) /\ UNCHANGED <<users, tokens>>
          ELSE /\ users' = Append(users, u)
               /\ tokens' = tokens \cup {Payload(u)}
               /\ FinishDoc(p, Len(users) + 1)
    /\ UNCHANGED <<apiKeys, quotas, appKeys, otpStore, now, issued, resets, work>>

\* GET /verify with a token that was signed.
VerifyTokenStart(p) ==
    /\ Quiet(p)
    /\ \E r \in VerifyRequests :
          /\ \E t \in tokens : t.userId = r.caller
          /\ Begin(p, r, "verify_user")

\* if (userId === req.user.id), line 882.
IsOwnAccount(r) == r.userId = Claim(Decoded(r), "id")

\* DELETE /admin/users/:userId, lines 877-901: the test for the caller's own
\* account, then User.findByIdAndDelete(userId).
DeleteUser(p) ==
    /\ pc[p] = "du"
    /\ LET i == FindUserById(users, rq[p].userId)
       IN IF IsOwnAccount(rq[p]) THEN Finish(p, 400, "ownAccount") /\ UNCHANGED users
          ELSE IF i = 0 THEN Finish(p, 404, "userNotFound") /\ UNCHANGED users
          ELSE /\ users' = [users EXCEPT ![i].live = FALSE]
               /\ FinishDoc(p, i)
    /\ UNCHANGED <<apiKeys, quotas, appKeys, local, work>>

\* POST /forgot-password, lines 139-150: validation and the lookup.
ForgotFind(p) ==
    /\ pc[p] = "fp_find"
    /\ LET r == rq[p]
           i == FindUserByEmail(users, r.email)
       IN IF Missing(r.email) THEN Finish(p, 400, "required")
          ELSE IF i = 0 THEN Finish(p, 404, "userNotFound")
          ELSE GotoWith(p, "fp_save", [loc[p] EXCEPT !.id = i])
    /\ UNCHANGED <<apiKeys, quotas, appKeys, users, local, work>>

\* lines 152-159: a new token, valid for an hour, saved on the user. The
\* save of a document that was deleted meanwhile throws.
ForgotSave(p) ==
    /\ pc[p] = "fp_save"
    /\ Len(resets) < Len(ResetTokens)
    /\ LET i == loc[p].id
       IN IF ~users[i].live
          THEN Caught(p, "DocumentNotFound", <<500, "server">>) /\ UNCHANGED <<users, resets>>
          ELSE /\ users' = [users EXCEPT
                              ![i].resetPasswordToken = ResetTokens[Len(resets) + 1],
                              ![i].resetPasswordExpires = now + ResetExpiryMinutes]
               /\ resets' = Append(resets, 0)
               /\ Goto(p, "fp_mail")
    /\ UNCHANGED <<apiKeys, quotas, appKeys, otpStore, now, issued, tokens, work>>

\* lines 161-169: sendPasswordResetEmail succeeds or fails.
ForgotMail(p) ==
    /\ pc[p] = "fp_mail"
    /\ \E ok \in BOOLEAN :
          IF ok THEN Finish(p, 200, "") ELSE Finish(p, 500, "mailFailed")
    /\ UNCHANGED <<apiKeys, quotas, appKeys, users, local, work>>

\* User.findOne({resetPasswordToken: token, resetPasswordExpires: {$gt: t}})
FindUserByResetToken(us, tok, t) ==
    First({i \in 1..Len(us) : /\ us[i].live
                              /\ us[i].resetPasswordToken = tok
                              /\ us[i].resetPasswordExpires > t})

\* POST /reset-password, lines 205-224: validation and the lookup.
ResetFind(p) ==
    /\ pc[p] = "rp_find"
    /\ LET r == rq[p]
           i == FindUserByResetToken(users, r.token, now)
       IN IF Missing(r.token) \/ Missing(r.password) THEN Finish(p, 400, "required")
          ELSE IF Len(r.password) < MinPasswordLength THEN Finish(p, 400, "tooShort")
          ELSE IF i = 0 THEN Finish(p, 400, "invalidResetToken")
          ELSE GotoWith(p, "rp_save", [loc[p] EXCEPT !.id = i])
    /\ UNCHANGED <<apiKeys, quotas, appKeys, users, local, work>>

\* The position of token tok among the tokens generated.
ResetIndex(tok) == CHOOSE k \in 1..Len(ResetTokens) : ResetTokens[k] = tok

\* lines 226-236: the new hash is set and the token fields are unset on the
\* document found, and the document is saved.
ResetSave(p) ==
    /\ pc[p] = "rp_save"
    /\ LET i == loc[p].id
       IN IF ~users[i].live
          THEN Caught(p, "DocumentNotFound", <<500, "server">>) /\ UNCHANGED <<users, resets>>
          ELSE /\ users' = [users EXCEPT ![i].password = Hash(rq[p].password),
                                         ![i].resetPasswordToken = Absent,
                                         ![i].resetPasswordExpires = 0]
               /\ resets' = [resets EXCEPT ![ResetIndex(rq[p].token)] = @ + 1]
               /\ Finish(p, 200, "")
    /\ UNCHANGED <<apiKeys, quotas, appKeys, otpStore, now, issued, tokens, work>>

----------------------------------------------------------------------------
(* Specifications *)

\* The state after start-up with an empty database, under workload <<s, b, c>>.
\* No request has arrived yet; the workload is s, b, c, m.
\* The accounts of the users of the key and chat routes; the make-admin
\* script has been run for the first.
Registered ==
    <<[NewUser(<< >>, "u1@x.io", "pw") EXCEPT !.isAdmin = TRUE],
      NewUser(<<1>>, "u2@x.io", "pw")>>

Arriving(s, b, c, m) ==
    /\ users = Registered
    /\ otpStore = {}
    /\ now = 0
    /\ issued = << >>
    /\ tokens = {}
    /\ resets = << >>
    /\ pc = [p \in Procs |-> "idle"]
    /\ rq = [p \in Procs |-> NoReq]
    /\ loc = [p \in Procs |-> Loc0]
    /\ resp = [p \in Procs |-> NoResp]
    /\ slots = s
    /\ budget = b
    /\ clients = c
    /\ models = m

\* The empty database.
Fresh(s, b, c) ==
    /\ apiKeys = << >>
    /\ quotas = << >>
    /\ appKeys = << >>
    /\ Arriving(s, b, c, {})

\* The steps of the handlers of the user's own key endpoints.
KeyStep(p) ==
    \/ PostKeyCheck(p) \/ PostKeyClear(p) \/ PostKeySave(p)
    \/ PutKeyFind(p) \/ PutKeyDup(p) \/ PutKeyClear(p) \/ PutKeySave(p)
    \/ DeleteKey(p) \/ DeleteReply(p)
    \/ SetActiveFind(p) \/ SetActiveClear(p) \/ SetActiveSet(p)

KeyStart(p) ==
    \/ PostKeyStart(p) \/ PutKeyStart(p) \/ DeleteKeyStart(p) \/ SetActiveStart(p)

\* The key store, its requests run one at a time, any number of them.
Init == Fresh({1}, -1, Users)

Next == \E p \in Procs : KeyStart(p) \/ KeyStep(p)

Spec == Init /\ [][Next]_vars

\* No two documents of the collection collide in the unique index.
IndexHolds(keys) ==
    \A i \in Live(keys) : ~UniqueViolation(keys, i, keys[i])

\* The documents a create can store.
KeyDocs ==
    {NewAPIKey(u, prov, k, n, d) :
        u \in Users, prov \in KeyProviders, k \in RawKeys, n \in Names, d \in BOOLEAN}

\* The documents of (u, prov) that carry the default flag.
DefaultsOf(keys, u, prov) ==
    {i \in Live(keys) : keys[i].userId = u /\ keys[i].provider = prov /\ keys[i].isDefault}

AtMostOneDefault(keys) ==
    \A u \in Users, prov \in Providers : Cardinality(DefaultsOf(keys, u, prov)) <= 1

\* APIKey collections that a run of creates, one after the other, leaves
\* behind: the i-th create stores the i-th document (one with isDefault
\* clears the flag of the earlier ones of its user and provider).
StoredByCreates ==
    {ks \in UNION {[1..n -> KeyDocs] : n \in 0..MaxKeys} :
        IndexHolds(ks) /\ AtMostOneDefault(ks)}

\* The database at the start of a run: keys stored by earlier creates.
Seeded(s, b, c) ==
    /\ apiKeys \in StoredByCreates
    /\ quotas = << >>
    /\ appKeys = << >>
    /\ Arriving(s, b, c, {})

\* The key store under MaxReqs requests of one user that may overlap; the
\* other users' documents stand by.
InitKeysConc == Seeded(Procs, MaxReqs, {"u1"})

SpecKeysConc == InitKeysConc /\ [][Next]_vars

----------------------------------------------------------------------------
(* Properties of the key store *)

AllQuiet == \A p \in Procs : Quiet(p)

\* C1: after each completed call of a sequence of create, update and
\* setDefault requests run one at a time, at most one APIKey document per
\* (user, provider) has isDefault = true, updates that change the provider
\* included.
C1_OneDefaultAfterEachCall == AllQuiet => AtMostOneDefault(apiKeys)

\* The request in slot p is a well-formed create of a triple that is stored.
RepeatsStoredTriple(p) ==
    /\ rq[p].op = "create"
    /\ ~Missing(rq[p].provider)
    /\ FindTriple(apiKeys, rq[p].caller, rq[p].provider, rq[p].key) # 0

\* C3: a create of a (userId, provider, rawKey) triple that an earlier
\* create has stored is refused with status 400, and no step of it changes
\* the APIKey collection (so it stores no additional document).
C3_SecondCreateRefused ==
    [][\A p \in Procs :
          RepeatsStoredTriple(p) =>
             /\ apiKeys' = apiKeys
             /\ pc'[p] = "done" => resp'[p].status = 400]_vars

\* A create was refused as a duplicate of a stored triple.
C3_Witness ==
    \E p \in Procs :
        /\ pc[p] = "done"
        /\ resp[p].op = "create" /\ resp[p].status = 400 /\ resp[p].error = "exists"
        /\ Len(apiKeys) >= 1

\* C10: a create or update that the unique index of the APIKey collection
\* rejected (the store call threw E11000) is answered with status 400.
C10_IndexRejectionAnswered400 ==
    \A p \in Procs :
        (pc[p] = "done" /\ resp[p].thrown = "E11000"
                        /\ resp[p].op \in {"create", "update"})
            => resp[p].status = 400

\* Slots p and q have answered two setDefault requests for two different
\* keys of one (user, provider), the only two requests of the run.
TwoSetDefaultsDone(p, q) ==
    /\ p # q
    /\ budget = MaxReqs - 2
    /\ pc[p] = "done" /\ resp[p].op = "setDefault" /\ resp[p].status = 200
    /\ pc[q] = "done" /\ resp[q].op = "setDefault" /\ resp[q].status = 200
    /\ resp[p].id # resp[q].id
    /\ resp[p].id \in Live(apiKeys) /\ resp[q].id \in Live(apiKeys)
    /\ apiKeys[resp[p].id].userId = apiKeys[resp[q].id].userId
    /\ apiKeys[resp[p].id].provider = apiKeys[resp[q].id].provider

\* C2: after two overlapping setDefault requests for two different keys of
\* the same (user, provider) have both completed, exactly one key of that
\* (user, provider) has isDefault = true.
C2_ExactlyOneDefaultAfterRace ==
    \A p, q \in Procs :
        TwoSetDefaultsDone(p, q) =>
            Cardinality(DefaultsOf(apiKeys, apiKeys[resp[p].id].userId,
                                   apiKeys[resp[p].id].provider)) = 1

----------------------------------------------------------------------------
(* The free tier: one user without a key of their own sends chat requests *)

ScenarioCalls == 11

FreeModels == {m \in ModelIds : ProviderOfModel(m) \in FreeProviders}

\* The steps of chat/send on the free tier.
FreeTierStep(p) ==
    \/ ChatKey(p) \/ CheckQuotaFind(p) \/ CheckQuotaSave(p) \/ ChatAppKey(p)
    \/ ChatUsage(p) \/ IncQuota(p) \/ IncApp(p)

\* One user, one free-tier model, the provider's app key configured, no
\* ledger record, and no key of the user's own for that provider.
InitFreeTier ==
    \E u \in Users, m \in FreeModels :
        /\ apiKeys \in {<< >>} \cup
              {<<NewAPIKey(u, q, "ka", "n1", TRUE)>> :
                  q \in FreeProviders \ {ProviderOfModel(m)}}
        /\ quotas = << >>
        /\ appKeys = <<NewAppKey(ProviderOfModel(m), "ka")>>
        /\ Arriving({1}, ScenarioCalls, {u}, {m})

NextFreeTier == \E p \in Procs : ChatStart(p) \/ FreeTierStep(p)

SpecFreeTier == InitFreeTier /\ [][NextFreeTier]_vars

\* usedCalls of the ledger record of (u, prov); 0 when there is none.
Used(qs, u, prov) ==
    IF FindQuota(qs, u, prov) = 0 THEN 0 ELSE qs[FindQuota(qs, u, prov)].usedCalls

CallsMade == ScenarioCalls - budget

ScenarioUser == CHOOSE u \in clients : TRUE

ScenarioProvider == ProviderOfModel(CHOOSE m \in models : TRUE)

\* C4: with no key of the user's own, no ledger record at the start and the
\* app key configured, the n-th sequential chat/send call is served through
\* the app key and leaves usedCalls = n for n = 1..10, and the 11th call is
\* answered 429 quotaExceeded and leaves usedCalls at 10.
C4_TenFreeCallsThenRefused ==
    (AllQuiet /\ CallsMade >= 1) =>
        IF CallsMade <= DefaultMaxFreeCalls
        THEN /\ resp[1].status = 200
             /\ resp[1].usage = CallsMade
             /\ Used(quotas, ScenarioUser, ScenarioProvider) = CallsMade
             /\ appKeys[1].usageCount = CallsMade
        ELSE /\ resp[1].status = 429
             /\ resp[1].error = "quotaExceeded"
             /\ Used(quotas, ScenarioUser, ScenarioProvider) = DefaultMaxFreeCalls
             /\ appKeys[1].usageCount = DefaultMaxFreeCalls

C4_Witness ==
    /\ AllQuiet
    /\ CallsMade = DefaultMaxFreeCalls + 1
    /\ resp[1].status = 429
    /\ Used(quotas, ScenarioUser, ScenarioProvider) = DefaultMaxFreeCalls

----------------------------------------------------------------------------
(* The quota helpers called directly, calls overlapping *)

\* Ledgers and app key pools that chat/send and the admin routes leave
\* behind: at most one record per (userId, provider), maxFreeCalls never
\* changed, and calls counted only against an app key that exists.
LedgerSeeds ==
    {<< >>} \cup
    {<<[NewUserQuota(u, prov) EXCEPT !.usedCalls = n]>> :
        u \in Users, prov \in FreeProviders,
        n \in {0, DefaultMaxFreeCalls - 1, DefaultMaxFreeCalls}}

PoolSeeds(qs) ==
    {aks \in {<< >>} \cup {<<NewAppKey(prov, "ka")>> : prov \in FreeProviders}
               \cup {<<NewAppKey("openai", "ka"), NewAppKey("gemini", "ka")>>} :
        \A i \in 1..Len(qs) :
            qs[i].usedCalls > 0 => FindAppKey(aks, qs[i].provider) # 0}

\* The usage an app key has counted when the ledger is qs.
PoolCounting(aks, qs) ==
    [j \in 1..Len(aks) |->
        [aks[j] EXCEPT !.usageCount = Used(qs, qs[1].userId, aks[j].provider)]]

SeededPool(qs) ==
    {IF qs = << >> THEN aks ELSE PoolCounting(aks, qs) : aks \in PoolSeeds(qs)}

InitQuotaFn ==
    /\ apiKeys = << >>
    /\ quotas \in LedgerSeeds
    /\ appKeys \in SeededPool(quotas)
    /\ Arriving(Procs, MaxReqs, {"u1"}, {})

NextQuotaFn ==
    \E p \in Procs :
        \/ CheckQuotaStart(p) \/ IncrementQuotaStart(p)
        \/ CheckQuotaFind(p) \/ CheckQuotaSave(p) \/ IncQuota(p) \/ IncApp(p)

SpecQuotaFn == InitQuotaFn /\ [][NextQuotaFn]_vars

\* The ledger records of (u, prov).
RecordsOf(qs, u, prov) ==
    {i \in 1..Len(qs) : qs[i].userId = u /\ qs[i].provider = prov}

\* The incrementQuota calls for (u, prov) whose ledger update happens in
\* this step.
Incrementing(u, prov) ==
    {p \in Procs : /\ pc[p] = "inc_quota" /\ pc'[p] # "inc_quota"
                   /\ QUser(rq[p]) = u /\ QProv(rq[p]) = prov}

\* C5: whatever the interleaving, a step changes usedCalls of a free-tier
\* (user, provider) by exactly the number of incrementQuota calls for it that
\* pass their ledger update in that step (one per call), leaves one record
\* for the pair whether or not one existed before, and a call for a provider
\* outside the free tier changes neither the ledger nor the app keys.
C5_IncrementAddsExactlyOne ==
    [][ /\ \A u \in Users, prov \in FreeProviders :
              /\ Used(quotas', u, prov) =
                     Used(quotas, u, prov) + Cardinality(Incrementing(u, prov))
              /\ Cardinality(RecordsOf(quotas', u, prov)) <= 1
              /\ Incrementing(u, prov) # {} =>
                     Cardinality(RecordsOf(quotas', u, prov)) = 1
        /\ \A p \in Procs :
              (pc[p] = "inc_quota" /\ pc'[p] # "inc_quota"
                  /\ QProv(rq[p]) \notin FreeProviders) =>
                  (quotas' = quotas /\ appKeys' = appKeys /\ pc'[p] = "done")
      ]_vars

\* Two incrementQuota calls for one pair were in flight together and both
\* are through: the record stands two higher than a seeded start allows
\* for one call.
C5_Witness ==
    /\ AllQuiet
    /\ budget = 0
    /\ \A p \in Procs : resp[p].op = "incrementQuota"
    /\ \E i \in 1..Len(quotas) : quotas[i].usedCalls \in {2, DefaultMaxFreeCalls + 2}

----------------------------------------------------------------------------
(* Chat and the admin routes, requests one at a time *)

\* At most one stored key, of either user, for a free-tier provider or not.
KeySeeds ==
    {<< >>} \cup
    {<<NewAPIKey(u, prov, "ka", "n1", d)>> :
        u \in Users, prov \in {"openai", "claude"}, d \in BOOLEAN}

ChatStep(p) == FreeTierStep(p) \/ ChatUserKey(p)

AdminStep(p) ==
    \/ Gate(p) \/ AppKeyFind(p) \/ AppKeyUpdate(p) \/ AppKeyInsert(p)
    \/ AppKeyShadowed(p) \/ List(p) \/ ResetQuotaAdmin(p) \/ ResetQuotaKeys(p)

AdminStart(p) == AppKeyStart(p) \/ ListStart(p) \/ ResetQuotaStart(p)

InitChat ==
    /\ apiKeys \in KeySeeds
    /\ quotas \in LedgerSeeds
    /\ appKeys \in SeededPool(quotas)
    /\ Arriving({1}, MaxReqs, {"u1"}, ModelIds \cup {Absent})

NextChat ==
    \E p \in Procs : ChatStart(p) \/ AdminStart(p) \/ ChatStep(p) \/ AdminStep(p)

SpecChat == InitChat /\ [][NextChat]_vars

----------------------------------------------------------------------------
(* Properties of chat and the admin routes *)

ResetOps == {"adminResetQuota", "keysResetQuota"}

\* C6: a quota reset sent by an admin for a free-tier provider is answered
\* 200 and leaves a ledger record with usedCalls = 0 for the pair, whether or
\* not a record existed before; for any other provider it is answered with
\* an error and the ledger is unchanged. On both mounted reset routes.
C6_ResetAlwaysSucceeds ==
    [][ \A p \in Procs :
          (rq[p].op \in ResetOps /\ rq[p].isAdmin /\ pc[p] # "done"
              /\ pc'[p] = "done") =>
              IF rq[p].provider \in FreeProviders
              THEN /\ resp'[p].status = 200
                   /\ FindQuota(quotas', rq[p].userId, rq[p].provider) # 0
                   /\ Used(quotas', rq[p].userId, rq[p].provider) = 0
              ELSE /\ resp'[p].status >= 400
                   /\ quotas' = quotas
      ]_vars

\* C7: while a request of a non-admin caller for an admin-only operation is
\* handled, no collection changes, and the answer is 403.
C7_NonAdminForbidden ==
    [][ \A p \in Procs :
          (~Quiet(p) /\ rq[p].op \in AdminOps /\ ~rq[p].isAdmin) =>
              /\ <<apiKeys, quotas, appKeys>>' = <<apiKeys, quotas, appKeys>>
              /\ pc'[p] = "done" => resp'[p].status = 403
      ]_vars

\* The key chat/send finds for the request in slot p, 0 when none.
OwnKey(p) ==
    FindDefaultActive(apiKeys, rq[p].caller, ProviderOfModel(rq[p].modelId))

ChatRunning(p) == ~Quiet(p) /\ rq[p].op = "chat" /\ ~Missing(rq[p].modelId)

\* C8: while chat/send handles a request of a user who has an active default
\* key for the provider, no UserQuota record and no AppKey changes; the
\* request is answered 200 and, as its only write, the usageCount of that
\* key goes up by one.
C8_OwnKeyUsedLedgerUntouched ==
    [][ \A p \in Procs :
          (ChatRunning(p) /\ OwnKey(p) # 0) =>
              /\ quotas' = quotas
              /\ appKeys' = appKeys
              /\ IF pc'[p] = "done"
                 THEN /\ resp'[p].status = 200
                      /\ apiKeys' = [apiKeys EXCEPT ![OwnKey(p)].usageCount = @ + 1]
                 ELSE apiKeys' = apiKeys
      ]_vars

\* A chat request was answered through the user's own key although the
\* ledger of that user and provider stood at the limit.
C8_Witness ==
    /\ resp[1].op = "chat"
    /\ resp[1].status = 200
    /\ \E i \in Live(apiKeys) :
          /\ apiKeys[i].usageCount = 1
          /\ apiKeys[i].isDefault
          /\ Used(quotas, apiKeys[i].userId, apiKeys[i].provider) = DefaultMaxFreeCalls

\* The limit of the ledger record of (u, prov); the default when there is none.
LimitOf(qs, u, prov) ==
    IF FindQuota(qs, u, prov) = 0 THEN DefaultMaxFreeCalls
    ELSE qs[FindQuota(qs, u, prov)].maxFreeCalls

\* The three-branch policy for a user without a key of their own.
Policy(qs, aks, u, prov) ==
    IF prov \notin FreeProviders THEN <<400, "requiresUserKey">>
    ELSE IF Used(qs, u, prov) >= LimitOf(qs, u, prov) THEN <<429, "quotaExceeded">>
    ELSE IF \A i \in 1..Len(aks) : ~(aks[i].provider = prov /\ aks[i].isActive)
         THEN <<500, "notConfigured">>
    ELSE <<200, "">>

\* Where chat/send has not yet decided between refusing and serving.
Deciding == {"chat_key", "cq_find", "cq_save", "chat_appkey"}

PolicyNow(p) ==
    Policy(quotas, appKeys, rq[p].caller, ProviderOfModel(rq[p].modelId))

\* C9: for a user without an active default key for the provider, every step
\* of chat/send up to its decision keeps the policy's verdict on the state;
\* a request refused is refused with the status and error of that verdict
\* (429, 500 or 400), one that goes on to the AI call has the verdict
\* "served", and a request past its decision is answered 200.
C9_ThreeBranchPolicy ==
    [][ \A p \in Procs :
          (ChatRunning(p) /\ OwnKey(p) = 0 /\ pc'[p] # pc[p]) =>
              IF pc[p] \notin Deciding THEN pc'[p] = "done" => resp'[p].status = 200
              ELSE IF pc'[p] = "done"
              THEN /\ PolicyNow(p)[1] # 200
                   /\ resp'[p].status = PolicyNow(p)[1]
                   /\ resp'[p].error = PolicyNow(p)[2]
              ELSE IF pc'[p] \in Deciding
              THEN Policy(quotas', appKeys', rq[p].caller,
                          ProviderOfModel(rq[p].modelId)) = PolicyNow(p)
              ELSE PolicyNow(p)[1] = 200
      ]_vars

\* A chat request of a user without a key for a free-tier provider with
\* quota left was refused because no app key is configured.
C9_Witness ==
    /\ AllQuiet
    /\ apiKeys = << >>
    /\ resp[1].op = "chat"
    /\ resp[1].status = 500
    /\ resp[1].error = "notConfigured"

----------------------------------------------------------------------------
(* Creates that overlap, for a user and provider that have a default key *)

\* The user a key request acts for: the caller, or the path's user on the
\* admin routes.
Owner(r) ==
    IF r.op \in {"adminCreate", "adminUpdate", "adminDelete", "adminSetDefault"}
    THEN r.userId ELSE r.caller

\* A create arrives; the number of requests of the run bounds the collection.
PostKeyArrive(p) ==
    /\ Quiet(p)
    /\ \E r \in PostKeyRequests : Begin(p, r, "post_check")

AdminPostArrive(p) ==
    /\ Quiet(p)
    /\ \E r \in AdminPostRequests : Begin(p, r, "gate")

CreateStep(p) ==
    \/ PostKeyCheck(p) \/ PostKeyClear(p) \/ PostKeySave(p)
    \/ Gate(p)
    \/ AdminPostUser(p) \/ AdminPostCheck(p) \/ AdminPostClear(p) \/ AdminPostSave(p)

\* One stored key, the default of its user and provider.
InitCreateRace ==
    /\ \E prov \in KeyProviders : apiKeys = <<NewAPIKey("u1", prov, "ka", "n1", TRUE)>>
    /\ quotas = << >>
    /\ appKeys = << >>
    /\ Arriving(Procs, MaxReqs, {"u1"}, {})

NextCreateRace ==
    \E p \in Procs : PostKeyArrive(p) \/ AdminPostArrive(p) \/ CreateStep(p)

SpecCreateRace == InitCreateRace /\ [][NextCreateRace]_vars

\* C11: a create with isDefault for the user and provider of the stored
\* default key, whose insert is refused after its clear step, leaves that
\* pair with exactly one default key.
C11_FailedCreateKeepsOneDefault ==
    [][ \A p \in Procs :
          (/\ pc[p] \in {"post_save", "ac_save"}
           /\ pc'[p] = "done"
           /\ resp'[p].thrown # ""
           /\ Truthy(rq[p].isDefault)
           /\ Owner(rq[p]) = apiKeys[1].userId
           /\ rq[p].provider = apiKeys[1].provider) =>
              Cardinality(DefaultsOf(apiKeys', Owner(rq[p]), rq[p].provider)) = 1
      ]_vars

----------------------------------------------------------------------------
(* Properties of the quota helpers under overlapping calls *)

\* checkQuota alone, its calls overlapping.
NextQuotaChecks ==
    \E p \in Procs : CheckQuotaStart(p) \/ CheckQuotaFind(p) \/ CheckQuotaSave(p)

SpecQuotaChecks == InitQuotaFn /\ [][NextQuotaChecks]_vars

\* C12: a checkQuota call for a free-tier provider completes without an
\* error and leaves exactly one ledger record for its pair; a call that
\* found no record returns true.
C12_FirstChecksCompleteWithOneRecord ==
    [][ \A p \in Procs :
          (/\ rq[p].op = "checkQuota"
           /\ rq[p].provider \in FreeProviders
           /\ pc[p] \in {"cq_find", "cq_save"}
           /\ pc'[p] = "done") =>
              /\ resp'[p].thrown = ""
              /\ Cardinality(RecordsOf(quotas', rq[p].userId, rq[p].provider)) = 1
              /\ pc[p] = "cq_save" => resp'[p].error = "true"
      ]_vars

----------------------------------------------------------------------------
(* App key upserts that overlap *)

InitAppKeyConc ==
    /\ apiKeys = << >>
    /\ quotas = << >>
    /\ appKeys \in PoolSeeds(quotas)
    /\ Arriving(Procs, MaxReqs, {"u1"}, {})

NextAppKeyConc ==
    \E p \in Procs :
        \/ AppKeyStart(p) \/ Gate(p) \/ AppKeyFind(p) \/ AppKeyUpdate(p)
        \/ AppKeyInsert(p) \/ AppKeyShadowed(p)

SpecAppKeyConc == InitAppKeyConc /\ [][NextAppKeyConc]_vars

\* The AppKey records of a provider.
AppKeysOf(aks, prov) == {i \in 1..Len(aks) : aks[i].provider = prov}

\* C13: no step leaves two AppKey records for one provider; an upsert that
\* finds a record for its provider goes on to replace, and the replacing
\* step puts the request's key into that record, adds no record and is
\* answered 200.
C13_OneAppKeyPerProvider ==
    [][ /\ \A prov \in Providers :
              /\ Cardinality(AppKeysOf(appKeys, prov)) <= 1
              /\ Cardinality(AppKeysOf(appKeys', prov)) <= 1
        /\ \A p \in Procs :
              /\ (/\ pc[p] = "ak_find" /\ pc'[p] \notin {"ak_find", "done"}
                  /\ AppKeysOf(appKeys, rq[p].provider) # {}) => pc'[p] = "ak_update"
              /\ (pc[p] = "ak_update" /\ pc'[p] = "done") =>
                    /\ Len(appKeys') = Len(appKeys)
                    /\ \A i \in AppKeysOf(appKeys', rq[p].provider) :
                          appKeys'[i].key = rq[p].key
                    /\ resp'[p].status = 200
      ]_vars

\* Two upserts for a provider without a record overlapped: one inserted,
\* the other was refused by the index, and one record stands.
C13_Witness ==
    /\ AllQuiet
    /\ \E p \in Procs : resp[p].op = "adminAppKey" /\ resp[p].thrown = "E11000"
    /\ \E prov \in Providers : Cardinality(AppKeysOf(appKeys, prov)) = 1

----------------------------------------------------------------------------
(* Chat requests that overlap *)

InitChatConc ==
    /\ apiKeys \in KeySeeds
    /\ quotas \in LedgerSeeds
    /\ appKeys \in SeededPool(quotas)
    /\ Arriving(Procs, MaxReqs, {"u1"}, ModelIds \cup {Absent})

NextChatConc == \E p \in Procs : ChatStart(p) \/ ChatStep(p)

SpecChatConc == InitChatConc /\ [][NextChatConc]_vars

\* usageCount of the AppKey record of prov; 0 when there is none.
AppUsage(aks, prov) ==
    IF FindAppKey(aks, prov) = 0 THEN 0 ELSE aks[FindAppKey(aks, prov)].usageCount

\* The chat requests for prov whose app key usage is recorded in this step.
Recording(prov) ==
    {p \in Procs : /\ pc[p] = "inc_app" /\ pc'[p] = "done"
                   /\ rq[p].op = "chat" /\ QProv(rq[p]) = prov}

\* C14: in every step the usageCount of a provider's AppKey grows by the
\* number of chat requests for it that record their usage in that step, and
\* the requests that record usage, once each as their last step, are exactly
\* those answered 200 through the app key; a request served with the user's
\* own key or refused records none.
C14_AppUsageOncePerServedRequest ==
    [][ /\ \A prov \in Providers :
              AppUsage(appKeys', prov) =
                  AppUsage(appKeys, prov) + Cardinality(Recording(prov))
        /\ \A p \in Procs :
              (rq[p].op = "chat" /\ pc[p] # "done" /\ pc'[p] = "done") =>
                  (pc[p] = "inc_app" <=> (resp'[p].status = 200 /\ loc[p].usingAppKey))
      ]_vars

\* Two overlapping chat requests were both served through the app key.
C14_Witness ==
    /\ AllQuiet
    /\ budget = 0
    /\ \A p \in Procs : resp[p].op = "chat" /\ resp[p].status = 200
    /\ apiKeys = << >>
    /\ \E i \in 1..Len(appKeys) : appKeys[i].usageCount = 2

----------------------------------------------------------------------------
(* The ledger under increments and the quota report *)

NextLedger ==
    \E p \in Procs :
        \/ IncrementQuotaStart(p) \/ IncQuota(p) \/ IncApp(p)
        \/ VerifyStart(p) \/ VerifyUser(p) \/ VerifyOpenai(p) \/ VerifyGemini(p)

SpecLedger == InitQuotaFn /\ [][NextLedger]_vars

\* C15: no step of incrementQuota lowers the usedCalls of any pair, and the
\* remaining calls of every ledger record, and those a quota report
\* carries, are never negative, also when usedCalls has passed maxFreeCalls.
C15_UsedNeverDropsRemainingNeverNegative ==
    [][ /\ \A u \in Users, prov \in FreeProviders :
              Used(quotas', u, prov) >= Used(quotas, u, prov)
        /\ \A i \in 1..Len(quotas) : RemainingCalls(quotas[i]) >= 0
        /\ \A i \in 1..Len(quotas') : RemainingCalls(quotas'[i]) >= 0
        /\ \A p \in Procs :
              resp'[p].op = "verify" =>
                  \A k \in 1..Len(resp'[p].remaining) : resp'[p].remaining[k] >= 0
      ]_vars

\* A quota report was given for a record whose usedCalls an increment had
\* taken past maxFreeCalls.
C15_Witness ==
    \E p \in Procs :
        /\ resp[p].op = "verify"
        /\ Len(resp[p].remaining) = 2
        /\ resp[p].remaining[1] = 0
        /\ Used(quotas, "u1", "openai") > DefaultMaxFreeCalls

----------------------------------------------------------------------------
(* The frame of incrementQuota *)

\* The ledger documents of (u, prov).
DocsOf(qs, u, prov) == {qs[i] : i \in RecordsOf(qs, u, prov)}

\* C16: a step in which incrementQuota updates the ledger for one (user,
\* provider) leaves the ledger records of every other pair as they were:
\* none is added, removed or changed.
C16_IncrementLeavesOtherPairs ==
    [][ \A u \in Users, prov \in FreeProviders :
            Incrementing(u, prov) # {} =>
                \A v \in Users, other \in FreeProviders :
                    <<v, other>> # <<u, prov>> =>
                        DocsOf(quotas', v, other) = DocsOf(quotas, v, other)
      ]_vars

\* incrementQuota has run for (u1, openai) and for (u1, gemini) while
\* (u2, openai) had a record: the record of u2 stands where it was seeded
\* and each pair of u1 counts its one call.
C16_Witness ==
    /\ \A p \in Procs : pc[p] = "done" /\ resp[p].op = "incrementQuota"
    /\ Used(quotas, "u1", "openai") = 1
    /\ Used(quotas, "u1", "gemini") = 1
    /\ DocsOf(quotas, "u2", "openai") =
           {[NewUserQuota("u2", "openai") EXCEPT
                !.usedCalls = DefaultMaxFreeCalls - 1]}

----------------------------------------------------------------------------
(* The key store under the user's and the admin's key endpoints *)

AdminKeyStart(p) ==
    \/ AdminPostStart(p) \/ AdminPutStart(p) \/ AdminDeleteStart(p)
    \/ AdminSetActiveStart(p)

AdminKeyStep(p) ==
    \/ Gate(p)
    \/ AdminPostUser(p) \/ AdminPostCheck(p) \/ AdminPostClear(p) \/ AdminPostSave(p)
    \/ AdminPutFind(p) \/ AdminPutClear(p) \/ AdminPutUpdate(p)
    \/ AdminDeleteKey(p) \/ AdminDeleteReply(p)
    \/ AdminSetActiveFind(p) \/ AdminSetActiveClear(p) \/ AdminSetActiveSet(p)

\* Requests of users and admins, one at a time, any number of them.
NextKeysAdmin ==
    \E p \in Procs : KeyStart(p) \/ KeyStep(p) \/ AdminKeyStart(p) \/ AdminKeyStep(p)

SpecKeysAdmin == Init /\ [][NextKeysAdmin]_vars

\* The documents with _id id that belong to user u.
Matching(keys, id, u) ==
    {i \in 1..Len(keys) : i = id /\ keys[i].live /\ keys[i].userId = u}

\* C17: the store call of a delete (the user's or the admin's) removes the
\* document matching (keyId, owner) and leaves every other document as it
\* was, so that deleting the one default key of a (user, provider) leaves
\* the pair without a default; when nothing matches the collection is
\* unchanged, and the answer that follows is 404 exactly then.
C17_DeleteRemovesOnlyTheMatch ==
    [][ \A p \in Procs :
          /\ (pc[p] \in {"del", "ad_del"} /\ pc'[p] # pc[p]) =>
                LET m == Matching(apiKeys, rq[p].keyId, Owner(rq[p])) IN
                IF m = {}
                THEN apiKeys' = apiKeys /\ loc'[p].id = 0
                ELSE /\ loc'[p].id \in m
                     /\ Len(apiKeys') = Len(apiKeys)
                     /\ \A i \in 1..Len(apiKeys) :
                           IF i \in m THEN ~apiKeys'[i].live
                           ELSE apiKeys'[i] = apiKeys[i]
                     /\ \A i \in m :
                           DefaultsOf(apiKeys, apiKeys[i].userId, apiKeys[i].provider)
                                 = {i}
                               => DefaultsOf(apiKeys', apiKeys[i].userId,
                                             apiKeys[i].provider) = {}
          /\ (pc[p] \in {"del_reply", "ad_reply"} /\ pc'[p] # pc[p]) =>
                /\ pc'[p] = "done"
                /\ apiKeys' = apiKeys
                /\ resp'[p].status = IF loc[p].id = 0 THEN 404 ELSE 200
      ]_vars

\* A delete has removed the default key of a user and provider and is about
\* to answer: the pair's other key is stored and is not the default.
C17_Witness ==
    \E p \in Procs :
        /\ pc[p] \in {"del_reply", "ad_reply"}
        /\ loc[p].id # 0
        /\ loc[p].doc.isDefault
        /\ ~apiKeys[loc[p].id].live
        /\ \E j \in Live(apiKeys) :
              /\ apiKeys[j].userId = loc[p].doc.userId
              /\ apiKeys[j].provider = loc[p].doc.provider
        /\ \A j \in Live(apiKeys) : ~apiKeys[j].isDefault

\* C18: when no document with the key's id belongs to the owner (the caller,
\* or the path's user on the admin route), setDefault answers 404 at its
\* lookup and the collection is unchanged.
C18_SetDefaultNotFoundChangesNothing ==
    [][ \A p \in Procs :
          (pc[p] \in {"act_find", "as_find"}
              /\ Matching(apiKeys, rq[p].keyId, Owner(rq[p])) = {}
              /\ pc'[p] # pc[p]) =>
              /\ pc'[p] = "done"
              /\ resp'[p].status = 404
              /\ apiKeys' = apiKeys
      ]_vars

\* A setDefault has just been answered 404 although both ids are stored:
\* the keys belong to u2, one of them the default, so the request was for
\* another user's key.
C18_Witness ==
    /\ pc[1] = "done"
    /\ resp[1].op \in {"setDefault", "adminSetDefault"}
    /\ resp[1].status = 404
    /\ Len(apiKeys) = MaxKeys
    /\ \A i \in 1..Len(apiKeys) : apiKeys[i].live /\ apiKeys[i].userId = "u2"
    /\ \E i \in 1..Len(apiKeys) : apiKeys[i].isDefault

\* The labels of the update handlers after the middleware.
UpdateLabels ==
    {"put_find", "put_dup", "put_clear", "put_save", "au_find", "au_clear", "au_update"}

\* C19: while an update (the user's or the admin's) runs for a (keyId,
\* owner) that no document matches, no step of it changes the collection,
\* and it ends with 404 (or with the 400 of the user route's validation of
\* the body, which precedes the lookup).
C19_UpdateNotFoundChangesNothing ==
    [][ \A p \in Procs :
          (pc[p] \in UpdateLabels
              /\ Matching(apiKeys, rq[p].keyId, Owner(rq[p])) = {}
              /\ pc'[p] # pc[p]) =>
              /\ apiKeys' = apiKeys
              /\ pc'[p] = "done" =>
                    \/ resp'[p].status = 404
                    \/ resp'[p].status = 400 /\ resp'[p].error = "required"
      ]_vars

----------------------------------------------------------------------------
(* Signups that may overlap *)

InitSignup ==
    /\ apiKeys = << >>
    /\ quotas = << >>
    /\ appKeys = << >>
    /\ Arriving(Procs, MaxReqs, {Anonymous}, {})

NextSignup == \E p \in Procs : SignupStart(p) \/ SignupFind(p) \/ SignupSave(p)

SpecSignup == InitSignup /\ [][NextSignup]_vars

\* The User documents stored under the email that e is stored as.
UsersWithEmail(us, e) == {i \in 1..Len(us) : us[i].live /\ us[i].email = Lower(e)}

\* C20: every signup that ends either has created the user of its email and
\* answers 200 with the new user, or answers 400 for an email that is
\* registered and has created nothing; and no two users share an email.
C20_SignupCreatesOrRefusesDuplicate ==
    [][ /\ \A p \in Procs :
              (rq[p].op = "signup" /\ pc'[p] = "done") =>
                  \/ /\ resp'[p].status = 200
                     /\ Len(users') = Len(users) + 1
                     /\ resp'[p].id = Len(users')
                     /\ users'[Len(users')].email = Lower(rq[p].email)
                  \/ /\ resp'[p].status = 400
                     /\ resp'[p].error = "exists"
                     /\ UsersWithEmail(users, rq[p].email) # {}
                     /\ users' = users
        /\ \A e \in RawEmails : Cardinality(UsersWithEmail(users', e)) <= 1
      ]_vars

\* No two users share an email, whatever the interleaving.
OneUserPerEmail ==
    \A i, j \in 1..Len(users) :
        (users[i].live /\ users[j].live /\ users[i].email = users[j].email) => i = j

----------------------------------------------------------------------------
(* Payment webhooks and signups that may overlap *)

NextWebhook ==
    \E p \in Procs :
        \/ WebhookStart(p) \/ WebhookVerify(p) \/ WebhookFind(p) \/ WebhookSave(p)
        \/ SignupStart(p) \/ SignupFind(p) \/ SignupSave(p)

SpecWebhook == InitSignup /\ [][NextWebhook]_vars

\* The users whose premium status differs between two states of the
\* collection.
PremiumChanged(us, vs) ==
    {i \in 1..Len(us) : i <= Len(vs) /\ us[i].isPremium # vs[i].isPremium}

\* The request carries the digest of its own body under the webhook secret.
SignedByGateway(r) ==
    /\ r.signature[1] = WebhookSecret
    /\ r.signature[2] = <<r.event, r.userId>>

\* C21: a webhook whose signature is not the digest of its body under the
\* webhook secret is answered 400 at once and changes no collection; and
\* every step that changes a user's premium status is the step of a webhook
\* whose signature is that digest.
C21_WebhookNeedsMatchingSignature ==
    [][ /\ \A p \in Procs :
              (pc[p] = "wh_verify" /\ pc'[p] # pc[p] /\ ~SignedByGateway(rq[p])) =>
                  /\ pc'[p] = "done"
                  /\ resp'[p].status = 400
                  /\ <<apiKeys, quotas, appKeys, users>>' =
                         <<apiKeys, quotas, appKeys, users>>
        /\ PremiumChanged(users, users') # {} =>
              \E p \in Procs :
                  /\ rq[p].op = "webhook"
                  /\ SignedByGateway(rq[p])
                  /\ pc'[p] # pc[p]
      ]_vars

\* One webhook was refused for its signature and another, signed by the
\* gateway, has made its customer premium.
C21_Witness ==
    /\ \E p \in Procs :
          resp[p].op = "webhook" /\ resp[p].status = 400
              /\ resp[p].error = "invalidSignature"
    /\ \E p \in Procs : resp[p].op = "webhook" /\ resp[p].status = 200
    /\ \E i \in 1..Len(users) : users[i].isPremium
    /\ \E i \in 1..Len(users) : ~users[i].isPremium

----------------------------------------------------------------------------
(* The OTP service: two calls that may overlap, from an empty map *)

OtpStep(p) ==
    \/ SendOtpStart(p) \/ SendOtpStore(p) \/ SendOtpMail(p)
    \/ VerifyOtpStart(p) \/ VerifyOtp(p)
    \/ SignupOtpStart(p) \/ SignupOtpVerify(p) \/ SignupOtpFind(p) \/ SignupOtpSave(p)

NextOtp == (\E p \in Procs : OtpStep(p)) \/ Cleanup \/ Tick

SpecOtpPair == InitSignup /\ [][NextOtp]_vars

\* The OTP service under any number of calls, one at a time.
InitOtp ==
    /\ apiKeys = << >>
    /\ quotas = << >>
    /\ appKeys = << >>
    /\ Arriving({1}, -1, {Anonymous}, {})

SpecOtp == InitOtp /\ [][NextOtp]_vars

\* The entries of the map under the key of email e.
EntriesOf(store, e) == {d \in store : d.email = Lower(e)}

\* A verifyOTP call makes its step.
Verifying(p) == pc[p] = "vo" /\ pc'[p] = "done"

\* C22: when the mail cannot be sent, sendVerificationOTP reports a failure
\* and leaves the map as it is, the OTP it stored included; and a verifyOTP
\* with the stored code of its email, not after the expiry and with fewer
\* than 3 failed attempts, is valid.
C22_OtpStaysIssuedWhenMailFails ==
    [][ \A p \in Procs :
          /\ (pc[p] = "so_mail" /\ pc'[p] = "done") =>
                /\ otpStore' = otpStore
                /\ resp'[p].error \in {"sent", "mailFailed"}
          /\ (Verifying(p)
                /\ \E d \in EntriesOf(otpStore, rq[p].email) :
                      /\ d.otp = rq[p].code
                      /\ now <= d.expiryTime
                      /\ d.attempts < MaxOtpAttempts) =>
                resp'[p].error = "valid"
      ]_vars

\* Of the two calls made, sendVerificationOTP reported that the mail failed
\* and verifyOTP found the code valid: the code the failed send had stored.
C22_Witness ==
    \E p, q \in Procs :
        /\ pc[p] = "done" /\ resp[p].op = "sendOTP" /\ resp[p].error = "mailFailed"
        /\ pc[q] = "done" /\ resp[q].op = "verifyOTP" /\ resp[q].error = "valid"

\* C23: verifyOTP is valid only for the code of the entry stored under the
\* lower-cased email, not after its expiry and with fewer than 3 failed
\* attempts recorded; a wrong code against such an entry records one more
\* failed attempt; so with 3 recorded the right code is rejected too.
C23_VerifyOnlyStoredUnexpiredUnderLimit ==
    [][ \A p \in Procs :
          Verifying(p) =>
              /\ resp'[p].error = "valid" =>
                    \E d \in EntriesOf(otpStore, rq[p].email) :
                        /\ d.otp = rq[p].code
                        /\ now <= d.expiryTime
                        /\ d.attempts < MaxOtpAttempts
              /\ \A d \in EntriesOf(otpStore, rq[p].email) :
                    (d.otp # rq[p].code /\ now <= d.expiryTime
                        /\ d.attempts < MaxOtpAttempts) =>
                        EntriesOf(otpStore', rq[p].email) =
                            {[d EXCEPT !.attempts = d.attempts + 1]}
              /\ \A d \in EntriesOf(otpStore, rq[p].email) :
                    d.attempts >= MaxOtpAttempts => resp'[p].error # "valid"
      ]_vars

\* Three failed attempts are recorded against an entry that has not expired
\* and verifyOTP is called with its code, under the email in capitals.
C23_Witness ==
    \E p \in Procs :
        /\ pc[p] = "vo"
        /\ rq[p].email = "N1@x.io"
        /\ \E d \in EntriesOf(otpStore, rq[p].email) :
              /\ d.otp = rq[p].code
              /\ d.attempts = MaxOtpAttempts
              /\ now <= d.expiryTime

\* C24: of the OTPs issued for one email, no 4 fall into a 24-hour window:
\* the fourth latest and the latest are at least 24 hours apart.
C24_AtMostThreeOtpsPerDay ==
    Len(issued) > MaxOtpRequests =>
        issued[Len(issued)] - issued[1] >= DayMinutes

----------------------------------------------------------------------------
(* Accounts: logins and the admin's user routes, requests one at a time *)

InitAccounts ==
    /\ apiKeys = << >>
    /\ quotas = << >>
    /\ appKeys = << >>
    /\ Arriving({1}, -1, Users \cup {Anonymous}, {})

AccountStep(p) ==
    \/ LoginStart(p) \/ LoginFind(p) \/ Login(p)
    \/ UserAdminStart(p) \/ Gate(p)
    \/ GrantAdmin(p) \/ RevokeAdmin(p) \/ DeleteUser(p)
    \/ GoogleStart(p) \/ GoogleFind(p) \/ GoogleNew(p) \/ GoogleLink(p)
    \/ VerifyTokenStart(p) \/ VerifyUser(p) \/ VerifyOpenai(p) \/ VerifyGemini(p)

NextAccounts == \E p \in Procs : AccountStep(p)

SpecAccounts == InitAccounts /\ [][NextAccounts]_vars

\* C25: a delete-user request whose target userId is the account of the
\* caller, as the caller's token identifies it, is answered 400 and removes
\* no user.
C25_AdminCannotDeleteOwnAccount ==
    [][\A p \in Procs :
          (/\ pc[p] = "du"
           /\ pc'[p] = "done"
           /\ rq[p].userId = Decoded(rq[p]).userId)
          => (resp'[p].status = 400 /\ users' = users)]_vars

\* The stored account of user u is there and is not an admin's.
StoredNonAdmin(u) ==
    \E i \in 1..Len(users) : users[i].live /\ users[i].id = u /\ ~users[i].isAdmin

\* C27: once revoke-admin for user U has completed (requests run one at a
\* time, so U's stored account is no admin's when the later request arrives),
\* an admin-only request made by U is refused with 403, whenever the token
\* it carries was issued.
C27_RevokedAdminIsRefused ==
    [][\A p \in Procs :
          (/\ pc[p] = "gate"
           /\ pc'[p] # "gate"
           /\ rq[p].op \in {"grantAdmin", "revokeAdmin", "deleteUser"}
           /\ StoredNonAdmin(rq[p].caller))
          => (pc'[p] = "done" /\ resp'[p].status = 403)]_vars

----------------------------------------------------------------------------
(* Password resets: requests that may overlap, and the passing of time *)

InitPasswords ==
    /\ apiKeys = << >>
    /\ quotas = << >>
    /\ appKeys = << >>
    /\ Arriving(Procs, -1, {Anonymous}, {})

PasswordStep(p) ==
    \/ ForgotStart(p) \/ ForgotFind(p) \/ ForgotSave(p) \/ ForgotMail(p)
    \/ ResetStart(p) \/ ResetFind(p) \/ ResetSave(p)

NextPasswords == (\E p \in Procs : PasswordStep(p)) \/ Tick

SpecPasswords == InitPasswords /\ [][NextPasswords]_vars

\* C28: no reset token authorises more than one successful reset-password,
\* requests that overlap included.
C28_ResetTokenUsedAtMostOnce ==
    \A k \in 1..Len(resets) : resets[k] <= 1

----------------------------------------------------------------------------
(* The free-tier limit under chat requests that overlap *)

\* C26: under every interleaving of concurrent chat/send requests of one
\* user, the calls counted for the user and a free-tier provider never exceed
\* the limit: usedCalls <= maxFreeCalls in every reachable state.
C26_UsedCallsNeverExceedLimit ==
    \A i \in 1..Len(quotas) : quotas[i].usedCalls <= quotas[i].maxFreeCalls

----------------------------------------------------------------------------
(* The default flag under the user's update, requests one at a time *)

\* C30: no step of an update PUT /api-keys/:keyId whose body carries key and
\* name and no isDefault changes the default flag of any document, the
\* updated one included.
C30_UpdateWithoutIsDefaultKeepsFlags ==
    [][\A p \in Procs :
          (/\ pc[p] \in {"put_find", "put_dup", "put_clear", "put_save"}
           /\ pc'[p] # pc[p]
           /\ rq[p].isDefault = Absent /\ rq[p].provider = Absent
           /\ ~Missing(rq[p].key) /\ ~Missing(rq[p].name))
          => \A i \in Live(apiKeys) :
                 i \in Live(apiKeys') /\ apiKeys'[i].isDefault = apiKeys[i].isDefault]_vars

----------------------------------------------------------------------------
(* Other owners' documents under the user's key endpoints *)

\* C29: no step of a create, update, delete or setDefault request made by
\* user U through the user's key endpoints changes or removes a document
\* whose owner is not U, whatever keyId the request carries.
C29_UserRoutesLeaveOtherOwnersRecords ==
    [][\A p \in Procs :
          (/\ rq[p].op \in {"create", "update", "delete", "setDefault"}
           /\ ~Quiet(p)
           /\ pc'[p] # pc[p])
          => \A i \in Live(apiKeys) :
                 apiKeys[i].userId # rq[p].caller =>
                     (i <= Len(apiKeys') /\ apiKeys'[i] = apiKeys[i])]_vars

\* A delete that carried the keyId of another owner's document has run its
\* store call and removed nothing, while a create with isDefault of the same
\* caller, for the provider of that document, has cleared the defaults: the
\* other owner's document is there, still the default.
C29_Witness ==
    \E p, q \in Procs :
        /\ rq[p].op = "delete" /\ pc[p] = "del_reply" /\ loc[p].id = 0
        /\ rq[p].keyId \in Live(apiKeys)
        /\ apiKeys[rq[p].keyId].userId # rq[p].caller
        /\ apiKeys[rq[p].keyId].isDefault
        /\ rq[q].op = "create" /\ pc[q] = "post_save" /\ Truthy(rq[q].isDefault)
        /\ rq[q].provider = apiKeys[rq[p].keyId].provider

====
